---- MODULE Spec2Model ----
(***************************************************************************)
(* Model of the inventory registry of CommonInventory:                     *)
(*   FCommonInventoryRegistryRecord / FCommonInventoryRegistryState        *)
(*   (CommonInventoryRegistryTypes.h/.cpp) and the registry facade         *)
(*   UCommonInventoryRegistry (CommonInventoryRegistryDataSource.cpp).     *)
(*                                                                         *)
(* Array indices keep the 0-based values of the code (INDEX_NONE = -1);    *)
(* the TLA+ sequence element of index k is Seq[k + 1].                     *)
(***************************************************************************)
EXTENDS Integers, Sequences, FiniteSets, TLC

(***************************************************************************)
(* Bounds of the model.                                                    *)
(***************************************************************************)
\* FCrc values are kept modulo CrcMod instead of 2^32.
CrcMod == 16
\* Longest record list handed to Reset.
MaxResetLen == 2

(***************************************************************************)
(* Values.                                                                 *)
(***************************************************************************)
INDEX_NONE == -1
INVALID_REPLICATION_INDEX == 0

\* UScriptStruct of a payload: none, two default payload types, one custom data type.
NoStruct == 0
StructA == 1
StructB == 2
StructC == 3

\* FPrimaryAssetId = <<PrimaryAssetType, PrimaryAssetName>>; FNames are numbered
\* in lexical order.
NoneId == <<0, 0>>
RecordIds == {<<1, 1>>, <<1, 2>>, <<2, 1>>}
ArchetypeTypes == {id[1] : id \in RecordIds}

\* FConstStructView: a struct type and a memory address. A view of memory owned
\* by the caller is <<"ext", value>>, a view into CustomDataContainer is
\* <<"blob", index>>, the empty view has no memory. A view taken before the
\* container last grew is <<"old", index>> until the outcome of the
\* reallocation is known, and <<"stale", index>> once the memory has moved: it
\* then points into the released allocation.
NullView == [ScriptStruct |-> NoStruct, Memory |-> <<>>]
ExternalView(ss, v) == [ScriptStruct |-> ss, Memory |-> <<"ext", v>>]
ViewIsValid(view) == view.ScriptStruct # NoStruct /\ view.Memory # <<>>

\* FInstancedStructContainer: a sequence of items [ScriptStruct, Value].
IsValidIndex(Container, Index) == Index >= 0 /\ Index < Len(Container)
ContainerAt(Container, Index) ==
    [ScriptStruct |-> Container[Index + 1].ScriptStruct, Memory |-> <<"blob", Index>>]
ContainerRemoveAt(Container, Index) ==
    [k \in 1..(Len(Container) - 1) |->
        IF k < Index + 1 THEN Container[k] ELSE Container[k + 1]]

\* The value a view denotes: the struct type the view carries and the value
\* stored at its memory.
ViewValue(Container, view) ==
    IF ~ViewIsValid(view) THEN [ScriptStruct |-> NoStruct, Value |-> 0]
    ELSE IF view.Memory[1] = "ext"
         THEN [ScriptStruct |-> view.ScriptStruct, Value |-> view.Memory[2]]
         ELSE IF view.Memory[1] = "stale"
         THEN [ScriptStruct |-> view.ScriptStruct, Value |-> -1]
         ELSE IF IsValidIndex(Container, view.Memory[2])
              THEN [ScriptStruct |-> view.ScriptStruct,
                    Value |-> Container[view.Memory[2] + 1].Value]
              ELSE [ScriptStruct |-> view.ScriptStruct, Value |-> -1]

\* A record as a data source hands it to the registry.
MakeRecord(id, stack, path, payload, custom) ==
    [SharedData |-> [PrimaryAssetId |-> id, MaxStackSize |-> stack],
     AssetPath |-> path,
     DefaultPayload |-> payload,
     CustomData |-> custom,
     DefaultPayloadIndex |-> INDEX_NONE,
     CustomDataIndex |-> INDEX_NONE,
     RepIndex |-> INVALID_REPLICATION_INDEX,
     Checksum |-> 0]

PayloadInputs ==
    {NullView, ExternalView(StructA, 0), ExternalView(StructA, 1), ExternalView(StructB, 0)}

\* Records of the data source: one id without default payload, with default
\* payloads of two types, and with changed shared data, asset path and payload
\* value and no custom data; the other ids with and without a payload.
RecordInputs ==
    {MakeRecord(<<1, 1>>, 0, 0, dp, ExternalView(StructC, 0)) :
        dp \in PayloadInputs \ {ExternalView(StructA, 1)}}
    \cup
    {MakeRecord(<<1, 1>>, 1, 1, ExternalView(StructA, 1), NullView),
     MakeRecord(<<1, 2>>, 0, 0, NullView, ExternalView(StructC, 0))}
    \cup
    {MakeRecord(<<2, 1>>, 0, 0, dp, NullView) : dp \in {NullView, ExternalView(StructA, 0)}}

GetPrimaryAssetId(Record) == Record.SharedData.PrimaryAssetId
GetPrimaryAssetType(Record) == Record.SharedData.PrimaryAssetId[1]
GetPrimaryAssetName(Record) == Record.SharedData.PrimaryAssetId[2]

(***************************************************************************)
(* FCommonInventoryRegistryRecord                                          *)
(***************************************************************************)
RecordLess(Lhs, Rhs) ==
    IF GetPrimaryAssetType(Lhs) # GetPrimaryAssetType(Rhs)
    THEN GetPrimaryAssetType(Lhs) < GetPrimaryAssetType(Rhs)
    ELSE GetPrimaryAssetName(Lhs) < GetPrimaryAssetName(Rhs)

\* FCrc::StrCrc32 / FCrc::TypeCrc32 / FCrc::MemCrc32: a hash of the data chained
\* onto a previous crc, reduced to CrcMod values.
StrCrc32(Data, Crc) == (Crc * 5 + Data * 3 + 1) % CrcMod
TypeCrc32(Data, Crc) == (Crc * 3 + Data + 7) % CrcMod

\* CommonInventory::ExportScriptStruct, the text as a number:  "None" for an
\* empty view, else the struct path followed by the exported value.
ExportScriptStruct(Value) ==
    IF Value.ScriptStruct = NoStruct THEN 0 ELSE Value.ScriptStruct * 4 + Value.Value + 1

ExportSharedData(SharedData) ==
    SharedData.PrimaryAssetId[1] * 8 + SharedData.PrimaryAssetId[2] * 2 + SharedData.MaxStackSize

\* The checksum FCommonInventoryRegistryRecord::GetChecksum computes when none is cached.
ComputeRecordChecksum(Container, Record) ==
    LET c1 == StrCrc32(ExportSharedData(Record.SharedData), 0)
        c2 == StrCrc32(ExportScriptStruct(ViewValue(Container, Record.DefaultPayload)), c1)
        c3 == StrCrc32(ExportScriptStruct(ViewValue(Container, Record.CustomData)), c2)
    IN  StrCrc32(Record.AssetPath, c3)

RecordGetChecksum(Container, Record) ==
    IF Record.Checksum = 0 THEN ComputeRecordChecksum(Container, Record) ELSE Record.Checksum

ViewsIdentical(LhsContainer, Lhs, RhsContainer, Rhs) ==
    IF Lhs.ScriptStruct = Rhs.ScriptStruct
    THEN ~ViewIsValid(Lhs)
         \/ ViewValue(LhsContainer, Lhs).Value = ViewValue(RhsContainer, Rhs).Value
    ELSE FALSE

HasIdenticalData(ThisContainer, This, OtherContainer, Other) ==
    IF This.SharedData = Other.SharedData /\ This.AssetPath = Other.AssetPath
    THEN /\ ViewsIdentical(ThisContainer, This.DefaultPayload, OtherContainer, Other.DefaultPayload)
         /\ ViewsIdentical(ThisContainer, This.CustomData, OtherContainer, Other.CustomData)
    ELSE FALSE

HasIdenticalDataFast(This, Other) == This.Checksum = Other.Checksum

(***************************************************************************)
(* FCommonInventoryRegistryState                                           *)
(***************************************************************************)
\* TMap without entries.
EmptyMap == [k \in {} |-> 0]

\* Fatal names the check() that aborted the process, "" while it runs.
EmptyState ==
    [DataContainer |-> <<>>,
     CustomDataContainer |-> <<>>,
     Archetypes |-> <<>>,
     DataMap |-> EmptyMap,
     ReplicationMap |-> EmptyMap,
     RepIndexEncodingBitsNum |-> 0,
     Checksum |-> 0,
     Fatal |-> ""]

HasRecords(S) == Len(S.DataContainer) > 0
GetRecordsNum(S) == Len(S.DataContainer)
ContainsRecord(S, Id) == Id \in DOMAIN S.DataMap

\* Algo::FindBy(Archetypes, Type, &FArchetypeGroup::PrimaryAssetType): the
\* position of the first group of that type, 0 when there is none.
FindArchetypeGroup(Archetypes, Type) ==
    IF \E k \in 1..Len(Archetypes) : Archetypes[k].PrimaryAssetType = Type
    THEN CHOOSE k \in 1..Len(Archetypes) :
            /\ Archetypes[k].PrimaryAssetType = Type
            /\ \A j \in 1..(k - 1) : Archetypes[j].PrimaryAssetType # Type
    ELSE 0

ContainsArchetype(S, Type) == FindArchetypeGroup(S.Archetypes, Type) # 0

\* GetRecords(InArchetype) for a valid type: the positions in DataContainer of
\* the array view it returns.
GetRecords(S, InArchetype) ==
    LET TypeGroup == FindArchetypeGroup(S.Archetypes, InArchetype)
    IN  IF TypeGroup # 0
        THEN [i \in 1..S.Archetypes[TypeGroup].Offset |-> S.Archetypes[TypeGroup].Begin + i]
        ELSE <<>>

\* The record GetRecordPtr returns: its position in DataContainer, 0 for nullptr.
GetRecordPtr(S, Id) == IF Id \in DOMAIN S.DataMap THEN S.DataMap[Id] + 1 ELSE 0

GetRecordFromReplication(S, RepIndex) ==
    IF RepIndex \in DOMAIN S.ReplicationMap THEN S.ReplicationMap[RepIndex] + 1 ELSE 0

\* FMath::CeilLogTwo
RECURSIVE CeilLogTwo(_)
CeilLogTwo(n) == IF n <= 1 THEN 0 ELSE 1 + CeilLogTwo((n + 1) \div 2)

\* TArray::Sort with operator<.
SortRecords(Records) ==
    LET N == Len(Records)
        Rank(i) == Cardinality({j \in 1..N : RecordLess(Records[j], Records[i])})
                   + Cardinality({j \in 1..(i - 1) :
                        ~RecordLess(Records[j], Records[i]) /\ ~RecordLess(Records[i], Records[j])})
                   + 1
    IN  [k \in 1..N |-> Records[CHOOSE i \in 1..N : Rank(i) = k]]

IsSorted(Records) ==
    \A i \in 1..(Len(Records) - 1) : ~RecordLess(Records[i + 1], Records[i])

\* FixupDependencies without its duplicate check.
HasDuplicateId_Unchecked(Records) == FALSE

HasDuplicateId(Records) ==
    \E i, j \in 1..Len(Records) :
        i < j /\ GetPrimaryAssetId(Records[i]) = GetPrimaryAssetId(Records[j])

RefreshViewData(Container, InIndex) ==
    IF IsValidIndex(Container, InIndex) THEN ContainerAt(Container, InIndex) ELSE NullView

\* A variant of the loop of FixupDependencies whose groups begin one record
\* late.
BuildArchetypes_LateBegin(Records) ==
    LET N == Len(Records)
        Starts == {i \in 1..N :
                     i = 1 \/ GetPrimaryAssetType(Records[i - 1]) # GetPrimaryAssetType(Records[i])}
        StartOf(k) == CHOOSE i \in Starts : Cardinality({j \in Starts : j < i}) = k - 1
        EndOf(k) == IF k = Cardinality(Starts) THEN N + 1 ELSE StartOf(k + 1)
    IN  [k \in 1..Cardinality(Starts) |->
            [PrimaryAssetType |-> GetPrimaryAssetType(Records[StartOf(k)]),
             Begin |-> StartOf(k),
             Offset |-> EndOf(k) - StartOf(k),
             Checksum |-> 0]]

\* The archetype groups the loop of FixupDependencies builds: one per run of
\* records of the same type, with a zero checksum.
BuildArchetypes(Records) ==
    LET N == Len(Records)
        Starts == {i \in 1..N :
                     i = 1 \/ GetPrimaryAssetType(Records[i - 1]) # GetPrimaryAssetType(Records[i])}
        StartOf(k) == CHOOSE i \in Starts : Cardinality({j \in Starts : j < i}) = k - 1
        EndOf(k) == IF k = Cardinality(Starts) THEN N + 1 ELSE StartOf(k + 1)
    IN  [k \in 1..Cardinality(Starts) |->
            [PrimaryAssetType |-> GetPrimaryAssetType(Records[StartOf(k)]),
             Begin |-> StartOf(k) - 1,
             Offset |-> EndOf(k) - StartOf(k),
             Checksum |-> 0]]

\* FixupDependencies that never migrates the cached group checksums.
MigrateArchetypeChecksum_Dropped(Archetypes, CachedArchetypes) == Archetypes

MigrateArchetypeChecksum(Archetypes, CachedArchetypes) ==
    [k \in 1..Len(Archetypes) |->
        LET Previous == FindArchetypeGroup(CachedArchetypes, Archetypes[k].PrimaryAssetType)
        IN  IF Previous # 0
            THEN [Archetypes[k] EXCEPT !.Checksum = CachedArchetypes[Previous].Checksum]
            ELSE Archetypes[k]]

\* Replication indices that start at 0 (the "+ Invalid" offset forgotten).
RefreshMappings_ZeroBased(Container, Records) ==
    [i \in 1..Len(Records) |->
        [Records[i] EXCEPT
            !.RepIndex = i - 1,
            !.DefaultPayload = RefreshViewData(Container, Records[i].DefaultPayloadIndex),
            !.CustomData = RefreshViewData(Container, Records[i].CustomDataIndex)]]

RefreshMappings(Container, Records) ==
    [i \in 1..Len(Records) |->
        [Records[i] EXCEPT
            !.RepIndex = (i - 1) + 1,
            !.DefaultPayload = RefreshViewData(Container, Records[i].DefaultPayloadIndex),
            !.CustomData = RefreshViewData(Container, Records[i].CustomDataIndex)]]

FixupDependencies(S, bMigrateArchetypeChecksum) ==
    IF ~IsSorted(S.DataContainer) THEN [S EXCEPT !.Fatal = "check(IsSorted)"]
    ELSE IF HasDuplicateId(S.DataContainer) THEN [S EXCEPT !.Fatal = "duplicated FPrimaryAssetId"]
    ELSE
      LET Records == RefreshMappings(S.CustomDataContainer, S.DataContainer)
          N == Len(Records)
          Groups == BuildArchetypes(Records)
      IN  [S EXCEPT
            !.RepIndexEncodingBitsNum = CeilLogTwo(N + 1),
            !.DataContainer = Records,
            !.ReplicationMap = [r \in {Records[i].RepIndex : i \in 1..N} |->
                                  (CHOOSE i \in 1..N : Records[i].RepIndex = r) - 1],
            !.DataMap = [id \in {GetPrimaryAssetId(Records[i]) : i \in 1..N} |->
                           (CHOOSE i \in 1..N : GetPrimaryAssetId(Records[i]) = id) - 1],
            !.Archetypes = IF bMigrateArchetypeChecksum
                           THEN MigrateArchetypeChecksum(Groups, S.Archetypes)
                           ELSE Groups,
            !.Checksum = 0]


\* The two CollectCustomData passes of Reset: default payloads first, then
\* custom data, each in array order.
CollectCustomData(Records) ==
    LET N == Len(Records)
        Payloads == {i \in 1..N : ViewIsValid(Records[i].DefaultPayload)}
        Customs == {i \in 1..N : ViewIsValid(Records[i].CustomData)}
        PayloadIndex(i) == Cardinality({j \in Payloads : j < i})
        CustomIndex(i) == Cardinality(Payloads) + Cardinality({j \in Customs : j < i})
        Total == Cardinality(Payloads) + Cardinality(Customs)
        Source(k) == IF k < Cardinality(Payloads)
                     THEN Records[CHOOSE i \in Payloads : PayloadIndex(i) = k].DefaultPayload
                     ELSE Records[CHOOSE i \in Customs : CustomIndex(i) = k].CustomData
    IN  [Records |-> [i \in 1..N |->
                        [Records[i] EXCEPT
                            !.DefaultPayloadIndex = IF i \in Payloads THEN PayloadIndex(i) ELSE INDEX_NONE,
                            !.CustomDataIndex = IF i \in Customs THEN CustomIndex(i) ELSE INDEX_NONE]],
         CustomData |-> [k \in 1..Total |->
                            [ScriptStruct |-> Source(k - 1).ScriptStruct,
                             Value |-> Source(k - 1).Memory[2]]]]

InvalidateChecksum(Record) == [Record EXCEPT !.Checksum = 0]

Reset(S, InRegistryData) ==
    LET Collected == CollectCustomData(SortRecords(InRegistryData))
    IN  FixupDependencies(
            [S EXCEPT
                !.DataContainer = [i \in 1..Len(Collected.Records) |->
                                     InvalidateChecksum(Collected.Records[i])],
                !.CustomDataContainer = Collected.CustomData],
            FALSE)

\* RemoveCustomData: removes the blob and, unless it was the last one, shifts
\* every greater index of every record down by one and re-reads its view.
ShiftedIndex(Index, InCustomDataIndex) ==
    IF Index > InCustomDataIndex THEN Index - 1 ELSE Index

RemoveCustomData(S, InCustomDataIndex) ==
    IF ~IsValidIndex(S.CustomDataContainer, InCustomDataIndex) THEN S
    ELSE
      LET Container == ContainerRemoveAt(S.CustomDataContainer, InCustomDataIndex)
          Records == S.DataContainer
          Shift(Record) ==
            [Record EXCEPT
                !.DefaultPayloadIndex = ShiftedIndex(@, InCustomDataIndex),
                !.DefaultPayload =
                    IF Record.DefaultPayloadIndex > InCustomDataIndex
                    THEN ContainerAt(Container, Record.DefaultPayloadIndex - 1) ELSE @,
                !.CustomDataIndex = ShiftedIndex(@, InCustomDataIndex),
                !.CustomData =
                    IF Record.CustomDataIndex > InCustomDataIndex
                    THEN ContainerAt(Container, Record.CustomDataIndex - 1) ELSE @]
          OutOfRange(Record) ==
            \/ /\ Record.DefaultPayloadIndex > InCustomDataIndex
               /\ ~IsValidIndex(Container, Record.DefaultPayloadIndex - 1)
            \/ /\ Record.CustomDataIndex > InCustomDataIndex
               /\ ~IsValidIndex(Container, Record.CustomDataIndex - 1)
      IN  IF ~IsValidIndex(Container, InCustomDataIndex)
          THEN [S EXCEPT !.CustomDataContainer = Container]
          ELSE IF \E i \in 1..Len(Records) : OutOfRange(Records[i])
               THEN [S EXCEPT !.CustomDataContainer = Container,
                              !.Fatal = "CustomDataContainer index out of range"]
               ELSE [S EXCEPT !.CustomDataContainer = Container,
                              !.DataContainer = [i \in 1..Len(Records) |-> Shift(Records[i])]]


IndexField(Field) ==
    IF Field = "DefaultPayload" THEN "DefaultPayloadIndex" ELSE "CustomDataIndex"

\* CustomDataContainer.Append({InStructView}): a copy of the viewed struct.
ContainerAppend(Container, SourceContainer, InStructView) ==
    Append(Container, ViewValue(SourceContainer, InStructView))

\* CustomDataContainer.Append reallocates the memory of the container: the
\* views a record took before it are views into the previous allocation.
OutdateView(view) ==
    IF view.Memory # <<>> /\ view.Memory[1] = "blob"
    THEN [view EXCEPT !.Memory = <<"old", view.Memory[2]>>] ELSE view

OutdateViews(Records) ==
    [i \in 1..Len(Records) |->
        [Records[i] EXCEPT !.DefaultPayload = OutdateView(@), !.CustomData = OutdateView(@)]]

ViewIsOld(view) == view.Memory # <<>> /\ view.Memory[1] = "old"

\* The two outcomes of the reallocation for the views that were not re-read
\* after it: the memory was extended in place, or it moved.
ReallocOutcomeOf(view, bMoved) ==
    IF ViewIsOld(view)
    THEN [view EXCEPT !.Memory = <<IF bMoved THEN "stale" ELSE "blob", view.Memory[2]>>]
    ELSE view

\* The outcomes a reallocation can have for a state: one when no view predates it.
ReallocOutcomes(S) ==
    IF \E i \in 1..Len(S.DataContainer) :
          ViewIsOld(S.DataContainer[i].DefaultPayload) \/ ViewIsOld(S.DataContainer[i].CustomData)
    THEN BOOLEAN ELSE {FALSE}

ReallocOutcome(S, bMoved) ==
    [S EXCEPT !.DataContainer =
        [i \in 1..Len(@) |->
            [@[i] EXCEPT !.DefaultPayload = ReallocOutcomeOf(@, bMoved),
                         !.CustomData = ReallocOutcomeOf(@, bMoved)]]]

\* The RefreshCustomData lambda of the update path of AppendData, applied to the
\* view Field of the record at position Pos. SourceContainer is the container
\* a "blob" view of the incoming record points into.
RefreshCustomData(S, Pos, Field, SourceContainer, InStructView) ==
    LET Existing == S.DataContainer[Pos][Field]
        TargetIndex == S.DataContainer[Pos][IndexField(Field)]
        Matches == ViewIsValid(Existing) /\ TargetIndex # INDEX_NONE
        \* Just copy custom data if the type matches.
        Copied == [S EXCEPT !.CustomDataContainer[TargetIndex + 1] =
                        [ScriptStruct |-> @.ScriptStruct,
                         Value |-> ViewValue(SourceContainer, InStructView).Value]]
        Removed == IF Matches THEN RemoveCustomData(S, TargetIndex) ELSE S
        NewIndex == Len(Removed.CustomDataContainer)
        Appended == ContainerAppend(Removed.CustomDataContainer, SourceContainer, InStructView)
    IN  IF Matches /\ Existing.ScriptStruct = InStructView.ScriptStruct
        THEN IF IsValidIndex(S.CustomDataContainer, TargetIndex) THEN Copied
             ELSE [S EXCEPT !.Fatal = "CustomDataContainer index out of range"]
        ELSE IF Removed.Fatal # "" THEN Removed
        ELSE IF ViewIsValid(InStructView)
             THEN [Removed EXCEPT
                      !.CustomDataContainer = Appended,
                      !.DataContainer =
                          [OutdateViews(@) EXCEPT
                              ![Pos][IndexField(Field)] = NewIndex,
                              ![Pos][Field] = ContainerAt(Appended, NewIndex)]]
             ELSE [Removed EXCEPT
                      !.DataContainer[Pos][IndexField(Field)] = INDEX_NONE,
                      !.DataContainer[Pos][Field] = NullView]

\* An update that invalidates the record's checksum only.
InvalidateChecksumChain_RecordOnly(S, Pos) ==
    [S EXCEPT !.DataContainer[Pos] = InvalidateChecksum(@)]

\* "Invalidate the entire checksum chain" of the update path.
InvalidateChecksumChain(S, Pos) ==
    LET Group == FindArchetypeGroup(S.Archetypes, GetPrimaryAssetType(S.DataContainer[Pos]))
    IN  [S EXCEPT !.Archetypes[Group].Checksum = 0,
                  !.DataContainer[Pos] = InvalidateChecksum(@),
                  !.Checksum = 0]

\* Invalidation of the archetype group a record is inserted into or removed from.
InvalidateArchetype(Archetypes, Type) ==
    LET Group == FindArchetypeGroup(Archetypes, Type)
    IN  IF Group # 0 THEN [Archetypes EXCEPT ![Group].Checksum = 0] ELSE Archetypes

\* Algo::LowerBound(DataContainer, InRecord): 0-based insertion index.
LowerBound(Records, InRecord) ==
    IF \E i \in 1..Len(Records) : ~RecordLess(Records[i], InRecord)
    THEN (CHOOSE i \in 1..Len(Records) :
            /\ ~RecordLess(Records[i], InRecord)
            /\ \A j \in 1..(i - 1) : RecordLess(Records[j], InRecord)) - 1
    ELSE Len(Records)

InsertAt(Records, Record, Index) ==
    [k \in 1..(Len(Records) + 1) |->
        IF k < Index + 1 THEN Records[k]
        ELSE IF k = Index + 1 THEN Record ELSE Records[k - 1]]

\* The AppendCustomData lambda of the insert path.
AppendCustomData(S, Pos, Field, SourceContainer, InStructView) ==
    IF ViewIsValid(InStructView)
    THEN [S EXCEPT
            !.DataContainer[Pos][IndexField(Field)] = Len(S.CustomDataContainer),
            !.CustomDataContainer = ContainerAppend(@, SourceContainer, InStructView)]
    ELSE [S EXCEPT !.DataContainer[Pos][IndexField(Field)] = INDEX_NONE]

AppendDataUpdate(S, SourceContainer, InRecord) ==
    LET Pos == S.DataMap[GetPrimaryAssetId(InRecord)] + 1
        S1 == [S EXCEPT !.DataContainer[Pos].SharedData = InRecord.SharedData,
                        !.DataContainer[Pos].AssetPath = InRecord.AssetPath]
        S2 == RefreshCustomData(S1, Pos, "DefaultPayload", SourceContainer, InRecord.DefaultPayload)
        S3 == IF S2.Fatal # "" THEN S2
              ELSE RefreshCustomData(S2, Pos, "CustomData", SourceContainer, InRecord.CustomData)
    IN  IF S3.Fatal # "" THEN S3 ELSE InvalidateChecksumChain(S3, Pos)

AppendDataInsert(S, SourceContainer, InRecord) ==
    LET RecordIndex == LowerBound(S.DataContainer, InRecord)
        Pos == RecordIndex + 1
        S1 == [S EXCEPT
                !.DataContainer = InsertAt(@, InvalidateChecksum(InRecord), RecordIndex),
                !.Archetypes = InvalidateArchetype(@, GetPrimaryAssetType(InRecord))]
        S2 == AppendCustomData(S1, Pos, "DefaultPayload", SourceContainer, InRecord.DefaultPayload)
        S3 == AppendCustomData(S2, Pos, "CustomData", SourceContainer, InRecord.CustomData)
    IN  FixupDependencies(S3, TRUE)

\* AppendData: the state after the call; it returns AppendDataResult.
AppendDataFrom(S, SourceContainer, InRecord) ==
    IF ContainsRecord(S, GetPrimaryAssetId(InRecord))
    THEN AppendDataUpdate(S, SourceContainer, InRecord)
    ELSE AppendDataInsert(S, SourceContainer, InRecord)

AppendData(S, InRecord) == AppendDataFrom(S, <<>>, InRecord)
AppendDataResult(S, InRecord) == ~ContainsRecord(S, GetPrimaryAssetId(InRecord))

\* RemoveData: the state after the call; it returns RemoveDataResult.
RemoveData(S, PrimaryAssetId) ==
    LET Pos == GetRecordPtr(S, PrimaryAssetId)
        S1 == IF ViewIsValid(S.DataContainer[Pos].DefaultPayload)
              THEN RemoveCustomData(S, S.DataContainer[Pos].DefaultPayloadIndex)
              ELSE S
        S2 == IF S1.Fatal = "" /\ ViewIsValid(S1.DataContainer[Pos].CustomData)
              THEN RemoveCustomData(S1, S1.DataContainer[Pos].CustomDataIndex)
              ELSE S1
        Idx == S2.DataMap[PrimaryAssetId]
        S3 == [S2 EXCEPT
                !.Archetypes = InvalidateArchetype(@, PrimaryAssetId[1]),
                !.DataContainer = [k \in 1..(Len(@) - 1) |->
                                     IF k < Idx + 1 THEN @[k] ELSE @[k + 1]]]
    IN  IF Pos = 0 THEN S
        ELSE IF S2.Fatal # "" THEN S2
        ELSE FixupDependencies(S3, TRUE)

RemoveDataResult(S, PrimaryAssetId) == GetRecordPtr(S, PrimaryAssetId) # 0


\* FCrc::TypeCrc32 chained over a sequence of values, in order.
RECURSIVE CombineCrc(_, _)
CombineCrc(Values, Crc) ==
    IF Values = <<>> THEN Crc ELSE CombineCrc(Tail(Values), TypeCrc32(Head(Values), Crc))

GroupPositions(Archetype) == (Archetype.Begin + 1)..(Archetype.Begin + Archetype.Offset)

\* GetChecksum: the state with the checksums it caches; it returns the Checksum
\* field of that state.
GetChecksum(S) ==
    IF S.Checksum # 0 THEN S
    ELSE
      LET N == Len(S.DataContainer)
          Visited(i) == \E k \in 1..Len(S.Archetypes) :
                            S.Archetypes[k].Checksum = 0 /\ i \in GroupPositions(S.Archetypes[k])
          Records == [i \in 1..N |->
                        IF Visited(i)
                        THEN [S.DataContainer[i] EXCEPT
                                !.Checksum = RecordGetChecksum(S.CustomDataContainer, S.DataContainer[i])]
                        ELSE S.DataContainer[i]]
          GroupChecksum(Archetype) ==
              IF Archetype.Checksum = 0
              THEN CombineCrc([j \in 1..Archetype.Offset |-> Records[Archetype.Begin + j].Checksum], 0)
              ELSE Archetype.Checksum
          Groups == [k \in 1..Len(S.Archetypes) |->
                        [S.Archetypes[k] EXCEPT !.Checksum = GroupChecksum(S.Archetypes[k])]]
      IN  [S EXCEPT !.DataContainer = Records,
                    !.Archetypes = Groups,
                    !.Checksum = CombineCrc([k \in 1..Len(Groups) |-> Groups[k].Checksum], 0)]

\* The ids DiffRecords collects in PendingRemoveRecords, in the order of the
\* records of the state with fewer records.
PendingRemoveRecords(S, InBaseState) ==
    LET SelfIsFirst == ~(GetRecordsNum(S) > GetRecordsNum(InBaseState))
        FirstState == IF SelfIsFirst THEN S ELSE InBaseState
        SecondState == IF SelfIsFirst THEN InBaseState ELSE S
        Fast == S.Checksum # 0 /\ InBaseState.Checksum # 0
        Identical(SecondRecord, FirstRecord) ==
            IF Fast THEN HasIdenticalDataFast(SecondRecord, FirstRecord)
            ELSE HasIdenticalData(SecondState.CustomDataContainer, SecondRecord,
                                  FirstState.CustomDataContainer, FirstRecord)
        Matched == {i \in 1..GetRecordsNum(FirstState) :
                      LET Second == GetRecordPtr(SecondState, GetPrimaryAssetId(FirstState.DataContainer[i]))
                      IN  Second # 0 /\ Identical(SecondState.DataContainer[Second], FirstState.DataContainer[i])}
        Nth(k) == CHOOSE i \in Matched : Cardinality({j \in Matched : j < i}) = k - 1
    IN  [k \in 1..Cardinality(Matched) |-> GetPrimaryAssetId(FirstState.DataContainer[Nth(k)])]

\* Algo::ForEach(PendingRemoveRecords, verify(RemoveData(Id))).
RECURSIVE RemoveEach(_, _)
RemoveEach(S, Ids) ==
    IF Ids = <<>> \/ S.Fatal # "" THEN S
    ELSE IF ~RemoveDataResult(S, Head(Ids)) THEN [S EXCEPT !.Fatal = "verify(RemoveData)"]
    ELSE RemoveEach(RemoveData(S, Head(Ids)), Tail(Ids))

DiffRecords(S, InBaseState) ==
    IF HasRecords(S) /\ HasRecords(InBaseState)
    THEN LET Pending == PendingRemoveRecords(S, InBaseState)
         IN  IF Len(Pending) = GetRecordsNum(S) THEN Reset(S, <<>>) ELSE RemoveEach(S, Pending)
    ELSE S

(***************************************************************************)
(* The serializer: FInventoryRegistryHeader, SaveState and LoadState.      *)
(* A file is its header fields and its body, a sequence of small integers. *)
(***************************************************************************)
\* FInventoryRegistryHeaderVersion::Magic ("Common Inventory") and a value
\* that is not the magic.
Magic == 67
NotMagic == 68

\* FInventoryRegistryHeaderVersion::LatestVersion (InitialVersion).
LatestVersion == 0

\* UCommonInventorySettings::DataSourceClassName, and another data source.
DataSourceClassName == 1
OtherDataSourceClass == 2

\* A struct type that the build that wrote a file knew and this build does not.
StructOld == 4
KnownStructs == {StructA, StructB, StructC}

\* Property names of the tagged (not cooked) format.
TagNone == 0
TagDataContainer == 201
TagCustomDataContainer == 202

\* A struct type is written as its path and resolved by path when read; a
\* path no known type has resolves to no type.
StructPath(ScriptStruct) == IF ScriptStruct = NoStruct THEN 0 ELSE 100 + ScriptStruct

ResolveStruct(Path) ==
    IF \E ss \in KnownStructs : StructPath(ss) = Path
    THEN CHOOSE ss \in KnownStructs : StructPath(ss) = Path
    ELSE NoStruct

\* int32 indices, INDEX_NONE included, as a non-negative value.
EncodeIndex(Index) == Index + 1
DecodeIndex(Value) == Value - 1

RECURSIVE Flatten(_)
Flatten(Seqs) == IF Seqs = <<>> THEN <<>> ELSE Head(Seqs) \o Flatten(Tail(Seqs))

\* The serialized properties of a record; its views, replication index and
\* checksum are transient.
EncodeRecord(Record, bBinary) ==
    LET Fields == <<Record.SharedData.PrimaryAssetId[1],
                    Record.SharedData.PrimaryAssetId[2],
                    Record.SharedData.MaxStackSize,
                    Record.AssetPath,
                    EncodeIndex(Record.DefaultPayloadIndex),
                    EncodeIndex(Record.CustomDataIndex)>>
    IN  IF bBinary THEN Fields ELSE Fields \o <<TagNone>>

EncodeBlob(Blob) == <<StructPath(Blob.ScriptStruct), Blob.Value>>

\* StaticStruct()->SerializeItem(Writer, this): DataContainer, then
\* CustomDataContainer; binary when cooking, tagged otherwise.
EncodeState(S, bBinary) ==
    LET N == Len(S.DataContainer)
        M == Len(S.CustomDataContainer)
        Records == Flatten([i \in 1..N |-> EncodeRecord(S.DataContainer[i], bBinary)])
        Blobs == Flatten([k \in 1..M |-> EncodeBlob(S.CustomDataContainer[k])])
    IN  IF bBinary
        THEN <<N>> \o Records \o <<M>> \o Blobs
        ELSE <<TagDataContainer, N>> \o Records \o <<TagCustomDataContainer, M>> \o Blobs \o <<TagNone>>

EncodedRecordSize(bBinary) == Len(EncodeRecord(MakeRecord(NoneId, 0, 0, NullView, NullView), bBinary))

\* FCrc::MemCrc32 over the body.
RECURSIVE MemCrc32(_, _)
MemCrc32(Data, Crc) ==
    IF Data = <<>> THEN Crc ELSE MemCrc32(Tail(Data), (Crc * 3 + Head(Data) + 1) % CrcMod)

\* StaticStruct()->SerializeItem(Reader, this): Ok is Reader.AtEnd() and not
\* Reader.IsError().
DecodeState(Body, bBinary) ==
    LET Skip == IF bBinary THEN 0 ELSE 1
        Size == EncodedRecordSize(bBinary)
        At(k) == IF k >= 1 /\ k <= Len(Body) THEN Body[k] ELSE -1
        N == At(Skip + 1)
        RecordsStart == Skip + 2
        BlobsHeader == RecordsStart + (IF N < 0 THEN 0 ELSE N) * Size
        M == At(BlobsHeader + Skip)
        BlobsStart == BlobsHeader + Skip + 1
        End == BlobsStart + 2 * (IF M < 0 THEN 0 ELSE M) + Skip
        TagsOk == \/ bBinary
                  \/ /\ At(1) = TagDataContainer
                     /\ At(BlobsHeader) = TagCustomDataContainer
                     /\ At(End - 1) = TagNone
                     /\ \A i \in 1..N : At(RecordsStart + i * Size - 1) = TagNone
        IsError == N < 0 \/ M < 0 \/ End - 1 > Len(Body) \/ ~TagsOk
        AtEnd == End - 1 = Len(Body)
        Record(i) ==
            LET b == RecordsStart + (i - 1) * Size
            IN  [MakeRecord(<<At(b), At(b + 1)>>, At(b + 2), At(b + 3), NullView, NullView)
                    EXCEPT !.DefaultPayloadIndex = DecodeIndex(At(b + 4)),
                           !.CustomDataIndex = DecodeIndex(At(b + 5))]
        Blob(k) ==
            LET b == BlobsStart + 2 * (k - 1)
            IN  [ScriptStruct |-> ResolveStruct(At(b)), Value |-> At(b + 1)]
    IN  [Ok |-> ~IsError /\ AtEnd,
         DataContainer |-> IF IsError THEN <<>> ELSE [i \in 1..N |-> Record(i)],
         CustomDataContainer |-> IF IsError THEN <<>> ELSE [k \in 1..M |-> Blob(k)]]

\* SaveState: the file it writes (it returns true).
SaveState(S, bIsCooking) ==
    LET Body == EncodeState(S, bIsCooking)
    IN  [Magic |-> Magic,
         Version |-> LatestVersion,
         Checksum |-> MemCrc32(Body, 0),
         bIsCooked |-> bIsCooking,
         DataSourceClass |-> DataSourceClassName,
         Body |-> Body]

\* Header checks that accept a file of any version.
HeaderAccepted_AnyVersion(Ar, bIsCooked) ==
    /\ Ar.Magic = Magic
    /\ Ar.DataSourceClass = DataSourceClassName
    /\ Ar.bIsCooked = bIsCooked

\* The checks LoadState makes on the header before it reads the body.
HeaderAccepted(Ar, bIsCooked) ==
    /\ Ar.Magic = Magic
    /\ ~(Ar.Version > LatestVersion)
    /\ Ar.DataSourceClass = DataSourceClassName
    /\ Ar.bIsCooked = bIsCooked

\* LoadState that does not restore the secondary data after decoding.
LoadState_NoFixup(S, Ar, bIsCooked) ==
    LET Decoded == DecodeState(Ar.Body, bIsCooked)
        Loaded == [S EXCEPT !.DataContainer = Decoded.DataContainer,
                            !.CustomDataContainer = Decoded.CustomDataContainer]
        Rejected == [State |-> S, Result |-> FALSE, Deserialized |-> FALSE]
    IN  IF ~HeaderAccepted(Ar, bIsCooked) THEN Rejected
        ELSE IF MemCrc32(Ar.Body, 0) # Ar.Checksum THEN Rejected
        ELSE IF ~Decoded.Ok
             THEN [State |-> Reset(Loaded, <<>>), Result |-> FALSE, Deserialized |-> TRUE]
        ELSE IF \E k \in 1..Len(Loaded.CustomDataContainer) :
                    Loaded.CustomDataContainer[k].ScriptStruct = NoStruct
             THEN [State |-> Reset(Loaded, <<>>), Result |-> FALSE, Deserialized |-> TRUE]
        ELSE [State |-> Loaded, Result |-> TRUE, Deserialized |-> TRUE]

\* LoadState: the state after the call, the value it returns, and whether it
\* deserialized the body into the state.
LoadState(S, Ar, bIsCooked) ==
    LET Decoded == DecodeState(Ar.Body, bIsCooked)
        Loaded == [S EXCEPT !.DataContainer = Decoded.DataContainer,
                            !.CustomDataContainer = Decoded.CustomDataContainer]
        Rejected == [State |-> S, Result |-> FALSE, Deserialized |-> FALSE]
    IN  IF ~HeaderAccepted(Ar, bIsCooked) THEN Rejected
        ELSE IF MemCrc32(Ar.Body, 0) # Ar.Checksum THEN Rejected
        ELSE IF ~Decoded.Ok
             THEN [State |-> Reset(Loaded, <<>>), Result |-> FALSE, Deserialized |-> TRUE]
        ELSE IF \E k \in 1..Len(Loaded.CustomDataContainer) :
                    Loaded.CustomDataContainer[k].ScriptStruct = NoStruct
             THEN [State |-> Reset(Loaded, <<>>), Result |-> FALSE, Deserialized |-> TRUE]
        ELSE [State |-> FixupDependencies(Loaded, FALSE), Result |-> TRUE, Deserialized |-> TRUE]

StoredIds(S) == {GetPrimaryAssetId(S.DataContainer[i]) : i \in 1..Len(S.DataContainer)}

\* What a record holds, without its metadata: id and shared data, asset path
\* and the values its two views denote.
RecordData(S, Pos) ==
    [SharedData |-> S.DataContainer[Pos].SharedData,
     AssetPath |-> S.DataContainer[Pos].AssetPath,
     DefaultPayload |-> ViewValue(S.CustomDataContainer, S.DataContainer[Pos].DefaultPayload),
     CustomData |-> ViewValue(S.CustomDataContainer, S.DataContainer[Pos].CustomData)]

RecordDataSeq(S) == [i \in 1..Len(S.DataContainer) |-> RecordData(S, i)]

(***************************************************************************)
(* FCommonInventoryRedirects: the raw redirect lists of the settings and   *)
(* the maps resolved from them. An FName is a number, NAME_None is 0; a    *)
(* FCommonInventoryRedirector is <<OldValue, NewValue>>; a TMap<FName,     *)
(* FName> is the sequence of its pairs in insertion order, which is the    *)
(* order a map without removals is iterated in.                            *)
(***************************************************************************)
NAME_None == 0

IsValidRedirector(Redirector) ==
    Redirector[1] # NAME_None /\ Redirector[2] # NAME_None /\ Redirector[1] # Redirector[2]

MapContains(Map, Key) == \E i \in 1..Len(Map) : Map[i][1] = Key

\* TMap::Find: the value of the key, NAME_None standing for nullptr.
MapFind(Map, Key) ==
    IF MapContains(Map, Key)
    THEN Map[CHOOSE i \in 1..Len(Map) : Map[i][1] = Key][2]
    ELSE NAME_None

\* TMap::Emplace: the value of an existing key is replaced in place.
MapEmplace(Map, Key, Value) ==
    IF MapContains(Map, Key)
    THEN [i \in 1..Len(Map) |-> IF Map[i][1] = Key THEN <<Key, Value>> ELSE Map[i]]
    ELSE Append(Map, <<Key, Value>>)

RECURSIVE GenerateRedirectionMap(_)
GenerateRedirectionMap(InRedirects) ==
    IF InRedirects = <<>> THEN <<>>
    ELSE LET Redirector == InRedirects[Len(InRedirects)]
             RedirectionMap == GenerateRedirectionMap(SubSeq(InRedirects, 1, Len(InRedirects) - 1))
         IN  IF ~IsValidRedirector(Redirector) THEN RedirectionMap
             ELSE IF MapContains(RedirectionMap, Redirector[1]) THEN RedirectionMap
             ELSE Append(RedirectionMap, Redirector)

\* The while loop of ResolveValue without a stop value. Fuel counts the
\* iterations left before the loop is given up as not terminating.
RECURSIVE ResolveValueLoop(_, _, _, _, _)
ResolveValueLoop(UnresolvedRedirects, InValue, OutValue, VisitedKeys, Fuel) ==
    LET NextValue == MapFind(UnresolvedRedirects, OutValue)
    IN  IF NextValue = NAME_None THEN [OutValue |-> OutValue, Diverged |-> FALSE]
        ELSE IF NextValue \in VisitedKeys THEN [OutValue |-> InValue, Diverged |-> FALSE]
        ELSE IF Fuel = 0 THEN [OutValue |-> OutValue, Diverged |-> TRUE]
        ELSE ResolveValueLoop(UnresolvedRedirects, InValue, NextValue,
                              VisitedKeys \cup {OutValue}, Fuel - 1)

ResolveValue(UnresolvedRedirects, InValue) ==
    ResolveValueLoop(UnresolvedRedirects, InValue, InValue, {InValue},
                     Len(UnresolvedRedirects) + 1)

\* Variants of the loop of ResolveRedirectionMap: one that does not follow
\* the chain and one that does not look at the visited and the dirty keys.
ResolveChain_OneHop(UnresolvedRedirects, Resolved, InvalidKeys, VisitedKeys, NewValue, Fuel) ==
    [VisitedKeys |-> VisitedKeys, NewValue |-> NewValue, Diverged |-> FALSE]

RECURSIVE ResolveChain_NoCycleCheck(_, _, _, _, _, _)
ResolveChain_NoCycleCheck(UnresolvedRedirects, Resolved, InvalidKeys, VisitedKeys, NewValue, Fuel) ==
    LET NextValue == MapFind(UnresolvedRedirects, NewValue)
        Visited == VisitedKeys \cup {NewValue}
    IN  IF NextValue = NAME_None
        THEN [VisitedKeys |-> VisitedKeys, NewValue |-> NewValue, Diverged |-> FALSE]
        ELSE IF MapContains(Resolved, NextValue)
        THEN [VisitedKeys |-> Visited, NewValue |-> MapFind(Resolved, NextValue), Diverged |-> FALSE]
        ELSE IF Fuel = 0
        THEN [VisitedKeys |-> Visited, NewValue |-> NAME_None, Diverged |-> TRUE]
        ELSE ResolveChain_NoCycleCheck(UnresolvedRedirects, Resolved, InvalidKeys, Visited,
                                       NextValue, Fuel - 1)

\* The while loop of ResolveRedirectionMap for one entry.
RECURSIVE ResolveChain(_, _, _, _, _, _)
ResolveChain(UnresolvedRedirects, Resolved, InvalidKeys, VisitedKeys, NewValue, Fuel) ==
    LET NextValue == MapFind(UnresolvedRedirects, NewValue)
        Visited == VisitedKeys \cup {NewValue}
    IN  IF NextValue = NAME_None
        THEN [VisitedKeys |-> VisitedKeys, NewValue |-> NewValue, Diverged |-> FALSE]
        ELSE IF MapContains(Resolved, NextValue)
        THEN [VisitedKeys |-> Visited, NewValue |-> MapFind(Resolved, NextValue), Diverged |-> FALSE]
        ELSE IF NextValue \in Visited \/ NextValue \in InvalidKeys
        THEN [VisitedKeys |-> Visited, NewValue |-> NAME_None, Diverged |-> FALSE]
        ELSE IF Fuel = 0
        THEN [VisitedKeys |-> Visited, NewValue |-> NAME_None, Diverged |-> TRUE]
        ELSE ResolveChain(UnresolvedRedirects, Resolved, InvalidKeys, Visited, NextValue, Fuel - 1)

RECURSIVE EmplaceAll(_, _, _)
EmplaceAll(Map, Keys, Value) ==
    IF Keys = {} THEN Map
    ELSE LET Key == CHOOSE k \in Keys : \A other \in Keys : k <= other
         IN  EmplaceAll(MapEmplace(Map, Key, Value), Keys \ {Key}, Value)

\* ResolveRedirectionMap from the entry of index k on: Acc holds
\* OutResolvedRedirects, the global dirty list and whether a loop ran out of
\* iterations.
RECURSIVE ResolveRedirectionMapFrom(_, _, _)
ResolveRedirectionMapFrom(UnresolvedRedirects, k, Acc) ==
    IF k > Len(UnresolvedRedirects) THEN Acc
    ELSE LET OldValue == UnresolvedRedirects[k][1]
             NewValue == UnresolvedRedirects[k][2]
             Chain == ResolveChain(UnresolvedRedirects, Acc.Resolved, Acc.InvalidKeys,
                                   {OldValue}, NewValue, Len(UnresolvedRedirects) + 1)
             Step ==
                IF MapContains(Acc.Resolved, NewValue)
                THEN [Acc EXCEPT !.Resolved = MapEmplace(@, OldValue, MapFind(Acc.Resolved, NewValue))]
                ELSE IF NewValue \in Acc.InvalidKeys
                THEN [Acc EXCEPT !.InvalidKeys = @ \cup {OldValue}]
                ELSE IF Chain.NewValue # NAME_None
                THEN [Acc EXCEPT !.Resolved = EmplaceAll(@, Chain.VisitedKeys, Chain.NewValue)]
                ELSE [Acc EXCEPT !.InvalidKeys = @ \cup Chain.VisitedKeys,
                                 !.Diverged = @ \/ Chain.Diverged]
         IN  ResolveRedirectionMapFrom(UnresolvedRedirects, k + 1, Step)

ResolveRedirectionMap(UnresolvedRedirects) ==
    ResolveRedirectionMapFrom(UnresolvedRedirects, 1,
        [Resolved |-> <<>>, InvalidKeys |-> {}, Diverged |-> FALSE])

\* LoadRedirectsFromConfig for one of the two lists.
LoadRedirectsFromConfig(InRedirects) ==
    ResolveRedirectionMap(GenerateRedirectionMap(InRedirects)).Resolved

\* TryRedirect(FPrimaryAssetId&): the name is looked up in the name map, the
\* type in the type map.
TryRedirect(R, InPrimaryAssetId) ==
    <<IF MapContains(R.TypeRedirectionMap, InPrimaryAssetId[1])
      THEN MapFind(R.TypeRedirectionMap, InPrimaryAssetId[1]) ELSE InPrimaryAssetId[1],
      IF MapContains(R.NameRedirectionMap, InPrimaryAssetId[2])
      THEN MapFind(R.NameRedirectionMap, InPrimaryAssetId[2]) ELSE InPrimaryAssetId[2]>>

TryRedirectResult(R, InPrimaryAssetId) ==
    \/ MapContains(R.NameRedirectionMap, InPrimaryAssetId[2])
    \/ MapContains(R.TypeRedirectionMap, InPrimaryAssetId[1])

\* TArray::Find: the 0-based index of the first equal element or INDEX_NONE.
ArrayFind(Array, Item) ==
    IF \E i \in 1..Len(Array) : Array[i] = Item
    THEN (CHOOSE i \in 1..Len(Array) : Array[i] = Item /\ \A j \in 1..(i - 1) : Array[j] # Item) - 1
    ELSE INDEX_NONE

\* A variant of the loop of AppendRedirects that swaps the first link only.
SwapChain_FirstLink(Acc, UnresolvedRedirects, Current, Fuel) ==
    LET Next == MapFind(UnresolvedRedirects, Current)
        Index == ArrayFind(Acc.Redirects, <<Current, Next>>)
    IN  IF Next = NAME_None \/ Index = INDEX_NONE THEN Acc
        ELSE [Acc EXCEPT !.Redirects[Index + 1] = <<Next, Current>>]

\* The loop of AppendRedirects that swaps the links from Current on.
RECURSIVE SwapChain(_, _, _, _)
SwapChain(Acc, UnresolvedRedirects, Current, Fuel) ==
    LET Next == MapFind(UnresolvedRedirects, Current)
        Index == ArrayFind(Acc.Redirects, <<Current, Next>>)
    IN  IF Next = NAME_None \/ Acc.Fatal # "" THEN Acc
        ELSE IF Index = INDEX_NONE THEN [Acc EXCEPT !.Fatal = "ArrayIndexOutOfBounds"]
        ELSE IF Fuel = 0 THEN [Acc EXCEPT !.Diverged = TRUE]
        ELSE SwapChain([Acc EXCEPT !.Redirects[Index + 1] = <<Next, Current>>],
                       UnresolvedRedirects, Next, Fuel - 1)

\* A variant of AppendRedirects that rejects nothing but a redirector of a
\* name to itself.
AppendRedirects_Unchecked(InRedirects, OldValue, NewValue, bInvertCircularDependency) ==
    [Redirects |-> IF OldValue = NewValue THEN InRedirects
                   ELSE Append(InRedirects, <<OldValue, NewValue>>),
     Result |-> OldValue # NewValue, Fatal |-> "", Diverged |-> FALSE]

\* AppendRedirects: the list afterwards and the value returned.
AppendRedirects(InRedirects, OldValue, NewValue, bInvertCircularDependency) ==
    LET UnresolvedRedirects == GenerateRedirectionMap(InRedirects)
        NewValueResolved == ResolveValue(UnresolvedRedirects, NewValue)
        Rejected == [Redirects |-> InRedirects, Result |-> FALSE, Fatal |-> "",
                     Diverged |-> FALSE]
    IN  IF OldValue = NewValue THEN Rejected
        ELSE IF MapContains(UnresolvedRedirects, OldValue) THEN Rejected
        ELSE IF ~MapContains(UnresolvedRedirects, NewValue)
        THEN [Rejected EXCEPT !.Redirects = Append(InRedirects, <<OldValue, NewValue>>),
                              !.Result = TRUE]
        ELSE IF ~bInvertCircularDependency THEN Rejected
        ELSE IF NewValueResolved.Diverged THEN [Rejected EXCEPT !.Diverged = TRUE]
        ELSE IF NewValueResolved.OutValue = NewValue THEN Rejected
        ELSE IF NewValueResolved.OutValue # OldValue THEN Rejected
        ELSE SwapChain([Rejected EXCEPT !.Result = TRUE], UnresolvedRedirects, NewValue,
                       Len(InRedirects) + 1)

\* The redirects singleton after LoadRedirectsFromConfig over the two lists of
\* the settings.
LoadedRedirects(TypeRedirects, NameRedirects) ==
    [PrimaryAssetTypeRedirects |-> TypeRedirects,
     PrimaryAssetNameRedirects |-> NameRedirects,
     TypeRedirectionMap |-> LoadRedirectsFromConfig(TypeRedirects),
     NameRedirectionMap |-> LoadRedirectsFromConfig(NameRedirects),
     bDiverged |-> \/ ResolveRedirectionMap(GenerateRedirectionMap(TypeRedirects)).Diverged
                   \/ ResolveRedirectionMap(GenerateRedirectionMap(NameRedirects)).Diverged]

NoRedirects == LoadedRedirects(<<>>, <<>>)

\* The old values of the entries of a resolved map whose new value is
\* NewValue, in the order of the map.
RECURSIVE OldValuesOf(_, _)
OldValuesOf(RedirectionMap, NewValue) ==
    IF RedirectionMap = <<>> THEN <<>>
    ELSE (IF Head(RedirectionMap)[2] = NewValue THEN <<Head(RedirectionMap)[1]>> ELSE <<>>)
         \o OldValuesOf(Tail(RedirectionMap), NewValue)

\* The third loop of TraversePermutations: for every old type, every old name.
RECURSIVE PermuteTypesAndNames(_, _)
PermuteTypesAndNames(OldTypes, OldNames) ==
    IF OldTypes = <<>> THEN <<>>
    ELSE [i \in 1..Len(OldNames) |-> <<Head(OldTypes), OldNames[i]>>]
         \o PermuteTypesAndNames(Tail(OldTypes), OldNames)

\* A variant of TraversePermutations without the third loop.
TraversePermutations_NoCrossProduct(R, InPrimaryAssetId, FalseAt) ==
    LET OldNames == OldValuesOf(R.NameRedirectionMap, InPrimaryAssetId[2])
        OldTypes == OldValuesOf(R.TypeRedirectionMap, InPrimaryAssetId[1])
        Permutations_ ==
            [i \in 1..Len(OldNames) |-> <<InPrimaryAssetId[1], OldNames[i]>>]
            \o [i \in 1..Len(OldTypes) |-> <<OldTypes[i], InPrimaryAssetId[2]>>]
    IN  IF FalseAt \in 1..Len(Permutations_)
        THEN SubSeq(Permutations_, 1, FalseAt) ELSE Permutations_

\* TraversePermutations: the ids InPredicate is called with, in order.
\* InPredicate returns false on its call number FalseAt and true on every
\* other call (0: it always returns true).
TraversePermutations(R, InPrimaryAssetId, FalseAt) ==
    LET OldNames == OldValuesOf(R.NameRedirectionMap, InPrimaryAssetId[2])
        OldTypes == OldValuesOf(R.TypeRedirectionMap, InPrimaryAssetId[1])
        Permutations_ ==
            [i \in 1..Len(OldNames) |-> <<InPrimaryAssetId[1], OldNames[i]>>]
            \o [i \in 1..Len(OldTypes) |-> <<OldTypes[i], InPrimaryAssetId[2]>>]
            \o PermuteTypesAndNames(OldTypes, OldNames)
    IN  IF FalseAt \in 1..Len(Permutations_)
        THEN SubSeq(Permutations_, 1, FalseAt) ELSE Permutations_

\* The do-while loop of CleanupRedirects for one entry of the raw map: the
\* keys visited and the value the walk stopped at.
RECURSIVE CleanupChain(_, _, _, _, _, _)
CleanupChain(UnresolvedRedirects, CleanupKeys, InvalidKeys, VisitedKeys, CurrentValue, TargetValue) ==
    IF CurrentValue \in VisitedKeys \/ CurrentValue \in InvalidKeys
    THEN [VisitedKeys |-> VisitedKeys, CurrentValue |-> CurrentValue]
    ELSE IF CurrentValue \in CleanupKeys
    THEN [VisitedKeys |-> VisitedKeys, CurrentValue |-> TargetValue]
    ELSE LET NextValue == MapFind(UnresolvedRedirects, CurrentValue)
         IN  IF MapContains(UnresolvedRedirects, NextValue)
             THEN CleanupChain(UnresolvedRedirects, CleanupKeys, InvalidKeys,
                               VisitedKeys \cup {CurrentValue}, NextValue, TargetValue)
             ELSE [VisitedKeys |-> VisitedKeys \cup {CurrentValue}, CurrentValue |-> NextValue]

\* The for loop of CleanupRedirects from entry Index of the raw map on: the
\* keys to clean up.
RECURSIVE CleanupKeysFrom(_, _, _, _, _)
CleanupKeysFrom(UnresolvedRedirects, Index, CleanupKeys, InvalidKeys, TargetValue) ==
    IF Index > Len(UnresolvedRedirects) THEN CleanupKeys
    ELSE LET Walk == CleanupChain(UnresolvedRedirects, CleanupKeys, InvalidKeys, {},
                                  UnresolvedRedirects[Index][1], TargetValue)
         IN  IF Walk.CurrentValue = TargetValue
             THEN CleanupKeysFrom(UnresolvedRedirects, Index + 1,
                                  CleanupKeys \cup Walk.VisitedKeys, InvalidKeys, TargetValue)
             ELSE CleanupKeysFrom(UnresolvedRedirects, Index + 1,
                                  CleanupKeys, InvalidKeys \cup Walk.VisitedKeys, TargetValue)

\* CleanupRedirects: the list after RemoveAll and the value returned.
CleanupRedirects(InRedirects, TargetValue, bRecursively) ==
    LET CleanupKeys == IF bRecursively
                       THEN CleanupKeysFrom(GenerateRedirectionMap(InRedirects), 1,
                                            {TargetValue}, {}, TargetValue)
                       ELSE {TargetValue}
        Kept == SelectSeq(InRedirects, LAMBDA Redirect : Redirect[1] \notin CleanupKeys)
    IN  [Redirects |-> Kept, Result |-> Len(InRedirects) - Len(Kept) > 0]

(***************************************************************************)
(* UCommonInventoryRegistry::NetSerializeItem. The bits in flight are a    *)
(* number read from its low end: the replication index in as many bits as  *)
(* the registry of the writing end encodes it in, then, in builds with     *)
(* COMMON_INVENTORY_WITH_NETWORK_CHECKSUM, the checksum of the record.     *)
(***************************************************************************)
\* Ar.SerializeBits of a saving archive followed by Ar << Checksum.
NetWriteBits(RepIndex, BitsNum, Checksum, bWithNetworkChecksum) ==
    (RepIndex % (2 ^ BitsNum)) + ((2 ^ BitsNum) * (IF bWithNetworkChecksum THEN Checksum ELSE 0))

\* NetSerializeItem with a saving archive: the bits written.
NetSerializeItemSave(S, InPrimaryAssetId, bWithNetworkChecksum) ==
    LET Pos == GetRecordPtr(S, InPrimaryAssetId)
        RepIndex == IF Pos # 0 THEN S.DataContainer[Pos].RepIndex
                    ELSE INVALID_REPLICATION_INDEX
        Checksum == IF Pos # 0
                    THEN RecordGetChecksum(S.CustomDataContainer, S.DataContainer[Pos])
                    ELSE 0
    IN  NetWriteBits(RepIndex, S.RepIndexEncodingBitsNum, Checksum, bWithNetworkChecksum)

\* A variant of the loading branch that does not look at the replication
\* index when no record was found.
NetSerializeItemLoad_NoEnsure(S, Message, bOutSuccess, bWithNetworkChecksum) ==
    LET BitsNum == S.RepIndexEncodingBitsNum
        RepIndex == Message % (2 ^ BitsNum)
        Checksum == IF bWithNetworkChecksum THEN (Message \div (2 ^ BitsNum)) % CrcMod ELSE 0
        Pos == GetRecordFromReplication(S, RepIndex)
        LocalChecksum == IF bWithNetworkChecksum /\ Pos # 0
                         THEN RecordGetChecksum(S.CustomDataContainer, S.DataContainer[Pos])
                         ELSE 0
    IN  [PrimaryAssetId |-> IF Pos # 0 THEN GetPrimaryAssetId(S.DataContainer[Pos]) ELSE NoneId,
         bOutSuccess |-> bOutSuccess /\ ~(bWithNetworkChecksum /\ Checksum # LocalChecksum),
         RepIndex |-> RepIndex,
         Checksum |-> Checksum,
         RegistryRecord |-> Pos]

\* NetSerializeItem with a loading archive: the id, the success flag, the
\* replication index and the checksum read, and the record of the context.
NetSerializeItemLoad(S, Message, bOutSuccess, bWithNetworkChecksum) ==
    LET BitsNum == S.RepIndexEncodingBitsNum
        RepIndex == Message % (2 ^ BitsNum)
        Checksum == IF bWithNetworkChecksum THEN (Message \div (2 ^ BitsNum)) % CrcMod ELSE 0
        Pos == GetRecordFromReplication(S, RepIndex)
        LocalChecksum == IF bWithNetworkChecksum /\ Pos # 0
                         THEN RecordGetChecksum(S.CustomDataContainer, S.DataContainer[Pos])
                         ELSE 0
        bNoMatch == Pos = 0 /\ RepIndex # INVALID_REPLICATION_INDEX
        bMismatch == bWithNetworkChecksum /\ Checksum # LocalChecksum
    IN  [PrimaryAssetId |-> IF Pos # 0 THEN GetPrimaryAssetId(S.DataContainer[Pos]) ELSE NoneId,
         bOutSuccess |-> bOutSuccess /\ ~bNoMatch /\ ~bMismatch,
         RepIndex |-> RepIndex,
         Checksum |-> Checksum,
         RegistryRecord |-> Pos]

(***************************************************************************)
(* FCommonInventoryDefaultsPropagator and the items it reaches. The value  *)
(* of a payload blob is read as the values of its top-level properties:    *)
(* the property at offset k is digit k of the value in base FieldBase. An  *)
(* item held by an object is [PrimaryAssetId, Payload], its payload owns   *)
(* [ScriptStruct, Fields].                                                 *)
(***************************************************************************)
\* Number of values of a property.
FieldBase == 3

\* Offsets of the top-level properties of a payload struct.
PropertyOffsets == {0, 1}

\* The value of the property at an offset of a blob; a blob read through a
\* dangling view, or as a struct of another type, has no defined value (-1).
FieldAt(Value, Offset) ==
    IF Value < 0 THEN -1 ELSE (Value \div (FieldBase ^ Offset)) % FieldBase

FieldsOf(Value) == [Offset \in PropertyOffsets |-> FieldAt(Value, Offset)]

EncodeFields(Fields) == Fields[1] + FieldBase * Fields[2]

EmptyPayload == [ScriptStruct |-> NoStruct, Fields |-> <<>>]

\* FVariadicStruct::InitializeAs(ScriptStruct, Memory).
InitializeAs(StructValue) ==
    IF StructValue.ScriptStruct = NoStruct THEN EmptyPayload
    ELSE [ScriptStruct |-> StructValue.ScriptStruct, Fields |-> FieldsOf(StructValue.Value)]

\* The loop of PropagateItemDefaults over the top-level properties of the
\* payload: a property whose default changed and whose stored value is the
\* previous default takes the new default.
PropagateProperties(Payload, DefaultFields, OriginalFields) ==
    IF Payload.ScriptStruct = NoStruct THEN Payload
    ELSE [Payload EXCEPT !.Fields =
            [Offset \in PropertyOffsets |->
                IF DefaultFields[Offset] = OriginalFields[Offset] THEN @[Offset]
                ELSE IF @[Offset] = OriginalFields[Offset] THEN DefaultFields[Offset]
                ELSE @[Offset]]]

\* PropagateItemDefaults that leaves every item as it is.
PropagateItemDefaults_Untouched(OriginalRegistryState, Live, R, Item, bFault) ==
    [Item |-> Item, Fatal |-> ""]

\* PropagateItemDefaults: the item afterwards. The previous default is read
\* at the offsets of the properties of the payload whatever its own type is:
\* when the types differ the read is out of the struct, and bFault says
\* whether it faults or yields undefined values.
PropagateItemDefaults(OriginalRegistryState, Live, R, Item, bFault) ==
    IF Item.PrimaryAssetId # NoneId /\ ContainsRecord(OriginalRegistryState, Item.PrimaryAssetId)
    THEN LET Redirected == TryRedirect(R, Item.PrimaryAssetId)
             Pos == GetRecordPtr(Live, Redirected)
             Default == ViewValue(Live.CustomDataContainer, Live.DataContainer[Pos].DefaultPayload)
             OriginalPos == GetRecordPtr(OriginalRegistryState, Item.PrimaryAssetId)
             Original == ViewValue(OriginalRegistryState.CustomDataContainer,
                                   OriginalRegistryState.DataContainer[OriginalPos].DefaultPayload)
             bOutOfStruct == /\ Item.Payload.ScriptStruct # NoStruct
                             /\ Original.ScriptStruct # Item.Payload.ScriptStruct
         IN  IF Pos = 0
             THEN [Item |-> [PrimaryAssetId |-> NoneId, Payload |-> EmptyPayload], Fatal |-> ""]
             ELSE IF Default.ScriptStruct # Item.Payload.ScriptStruct
             THEN [Item |-> [PrimaryAssetId |-> Redirected, Payload |-> InitializeAs(Default)],
                   Fatal |-> ""]
             ELSE IF bOutOfStruct /\ bFault
             THEN [Item |-> [Item EXCEPT !.PrimaryAssetId = Redirected],
                   Fatal |-> "AccessViolation"]
             ELSE [Item |-> [PrimaryAssetId |-> Redirected,
                             Payload |-> PropagateProperties(Item.Payload, FieldsOf(Default.Value),
                                            FieldsOf(IF bOutOfStruct THEN -1 ELSE Original.Value))],
                   Fatal |-> ""]
    ELSE [Item |-> Item, Fatal |-> ""]

\* Whether an out-of-struct read is part of PropagateItemDefaults for the item.
ReadsOutOfStruct(OriginalRegistryState, Live, R, Item) ==
    /\ Item.PrimaryAssetId # NoneId /\ ContainsRecord(OriginalRegistryState, Item.PrimaryAssetId)
    /\ GetRecordPtr(Live, TryRedirect(R, Item.PrimaryAssetId)) # 0
    /\ Item.Payload.ScriptStruct # NoStruct
    /\ PropagateItemDefaults(OriginalRegistryState, Live, R, Item, TRUE).Fatal # ""

\* GetContextFromArchive: whether the archive is the one of the propagation in
\* progress (archives are numbered, 0 is nullptr).
GetContextFromArchive(P, Ar) == P.bIsPropagatingDefaults /\ P.CurrentPropagationArchive = Ar

\* PropagateRegistryDefaults without the check of IsPropagatingDefaults().
PropagateRegistryDefaults_Reentrant(P, InContext, Objects) ==
    IF Objects = <<>> THEN P
    ELSE [P EXCEPT !.bIsPropagatingDefaults = TRUE,
                   !.CurrentPropagationArchive = 1,
                   !.Context = InContext,
                   !.Objects = Objects,
                   !.VisitedObjects = {},
                   !.PreBroadcasts = @ + 1]

\* PropagateRegistryDefaults up to the first object: Objects is what
\* GatherObjectsForPropagation collected.
PropagateRegistryDefaults(P, InContext, Objects) ==
    IF P.bIsPropagatingDefaults THEN P
    ELSE IF Objects = <<>> THEN P
    ELSE [P EXCEPT !.bIsPropagatingDefaults = TRUE,
                   !.CurrentPropagationArchive = 1,
                   !.Context = InContext,
                   !.Objects = Objects,
                   !.VisitedObjects = {},
                   !.PreBroadcasts = @ + 1]

\* How a call of PropagateRegistryDefaults ended.
PropagateRegistryDefaultsResult(P, Objects) ==
    IF P.bIsPropagatingDefaults THEN "Rejected"
    ELSE IF Objects = <<>> THEN "NoObjects"
    ELSE "Propagating"

\* The propagator with no propagation in progress and no objects, and the
\* setting that makes OnPostRefresh update the network checksum.
IdlePropagator ==
    [bIsPropagatingDefaults |-> FALSE, CurrentPropagationArchive |-> 0,
     Context |-> EmptyState, Objects |-> <<>>, VisitedObjects |-> {},
     PreBroadcasts |-> 0, PostBroadcasts |-> 0, Items |-> <<>>,
     bRegisterNetworkCustomVersion |-> FALSE]

(***************************************************************************)
(* The registry state as a state machine: one action per operation of      *)
(* FCommonInventoryRegistryState.                                          *)
(***************************************************************************)
VARIABLES
    RegistryState,  \* the live FCommonInventoryRegistryState
    Call,           \* the last operation, its argument and the value it returned
    Archive,        \* the registry file on disk
    Saved,          \* the state the file on disk was saved from
    Threads,        \* the registry's critical section, the game thread inside
                    \* a batch operation and a reader on another thread
    Redirects,      \* the redirect lists of the settings and FCommonInventoryRedirects
    Propagator,     \* FCommonInventoryDefaultsPropagator and the objects it reaches
    Net,            \* the registry of the remote end and the bits in flight
    Source          \* UAssetManagerDataSource and the modes of the registry

vars == <<RegistryState, Call, Archive, Saved, Threads, Redirects, Propagator, Net, Source>>

\* No remote end and nothing in flight.
NoNet == [Remote |-> EmptyState, Message |-> 0, bWithNetworkChecksum |-> FALSE]

\* The data source after its constructor and the registry before a cook: no
\* preload was started, nothing is pending. Handles are the streamable
\* handles PreloadPrimaryAssets returned so far, PreloadHandle is the position
\* of the one the data source holds, 0 for a null handle. Pc is "Refreshing"
\* while BulkRefresh is inside PostRefreshDelegate.Broadcast(), and Caller is
\* the function that continues when BulkRefresh returns.
IdleSource ==
    [bIsCooking |-> FALSE,
     bIsPersistent |-> TRUE,
     bIsInitialized |-> FALSE,
     bPlayInEditorWorld |-> FALSE,
     bKeepLoadedAssets |-> FALSE,
     bRegisterNetworkCustomVersion |-> FALSE,
     bIsPendingCook |-> FALSE,
     bIsPendingRefresh |-> FALSE,
     bIsRefreshing |-> FALSE,
     PreloadHandle |-> 0,
     Handles |-> <<>>,
     Pc |-> "Idle",
     Caller |-> "None"]

\* No batch in progress, no reader, the critical section free.
IdleThreads ==
    [OwnerPc |-> "Idle", Op |-> "None", Input |-> <<>>, Result |-> 0,
     Original |-> EmptyState, Lock |-> "None",
     ReaderPc |-> "Idle", ReaderOp |-> "None", ReaderId |-> NoneId,
     ReaderSaw |-> [Found |-> FALSE, DefaultPayload |-> [ScriptStruct |-> NoStruct, Value |-> 0]],
     PreBatch |-> <<>>, PostBatch |-> <<>>, UnlockedWrite |-> FALSE]

\* Record lists handed to Reset and used to build the base state of DiffRecords.
ResetRecordInputs ==
    {MakeRecord(<<1, 1>>, 0, 0, ExternalView(StructA, 0), ExternalView(StructC, 0)),
     MakeRecord(<<1, 2>>, 0, 0, NullView, ExternalView(StructC, 0)),
     MakeRecord(<<2, 1>>, 0, 0, ExternalView(StructA, 0), NullView)}

RECURSIVE ListsUpTo(_, _)
ListsUpTo(Set, n) ==
    IF n = 0 THEN {<<>>}
    ELSE LET Shorter == ListsUpTo(Set, n - 1)
         IN  Shorter \cup {Append(l, x) : l \in Shorter, x \in Set}

ResetInputs == ListsUpTo(ResetRecordInputs, MaxResetLen)

\* Files LoadState is handed: an uncooked file with records and a cooked file
\* without, each intact and with a damaged body.
FlipByte(Body, k) == [Body EXCEPT ![k] = IF @ % 2 = 0 THEN @ + 1 ELSE @ - 1]

\* Record lists of the states whose files LoadState is handed.
ArchiveResetInputs ==
    {<<>>,
     <<MakeRecord(<<1, 1>>, 0, 0, ExternalView(StructA, 0), ExternalView(StructC, 0)),
       MakeRecord(<<1, 2>>, 0, 0, NullView, ExternalView(StructC, 0))>>}

ArchiveInputs ==
    LET Files == {SaveState(Reset(EmptyState, l), l = <<>>) : l \in ArchiveResetInputs}
    IN  Files \cup {[ar EXCEPT !.Body = FlipByte(@, Len(@))] : ar \in Files}

Running == RegistryState.Fatal = ""

Init ==
    /\ Redirects = NoRedirects
    /\ Propagator = IdlePropagator
    /\ RegistryState = EmptyState
    /\ Call = [Op |-> "Init", Arg |-> <<>>, Result |-> FALSE]
    /\ Archive = SaveState(EmptyState, FALSE)
    /\ Saved = EmptyState
    /\ Threads = IdleThreads
    /\ Net = NoNet
    /\ Source = IdleSource

ResetStep(Inputs) ==
    \E InRegistryData \in Inputs :
        /\ Running
        /\ RegistryState' = Reset(RegistryState, InRegistryData)
        /\ Call' = [Op |-> "Reset", Arg |-> InRegistryData, Result |-> FALSE]
        /\ UNCHANGED <<Redirects, Propagator, Archive, Saved, Threads, Net, Source>>

ResetAction == ResetStep(ResetInputs)

AppendDataStep(Inputs) ==
    \E InRecord \in Inputs :
        /\ Running
        /\ \E bMoved \in ReallocOutcomes(AppendData(RegistryState, InRecord)) :
              RegistryState' = ReallocOutcome(AppendData(RegistryState, InRecord), bMoved)
        /\ Call' = [Op |-> "AppendData", Arg |-> InRecord,
                    Result |-> AppendDataResult(RegistryState, InRecord)]
        /\ UNCHANGED <<Redirects, Propagator, Archive, Saved, Threads, Net, Source>>

AppendDataAction == AppendDataStep(RecordInputs)

RemoveDataAction ==
    \E PrimaryAssetId \in RecordIds :
        /\ Running
        /\ RegistryState' = RemoveData(RegistryState, PrimaryAssetId)
        /\ Call' = [Op |-> "RemoveData", Arg |-> PrimaryAssetId,
                    Result |-> RemoveDataResult(RegistryState, PrimaryAssetId)]
        /\ UNCHANGED <<Redirects, Propagator, Archive, Saved, Threads, Net, Source>>

GetChecksumAction ==
    /\ Running
    /\ RegistryState' = GetChecksum(RegistryState)
    /\ Call' = [Op |-> "GetChecksum", Arg |-> <<>>, Result |-> RegistryState'.Checksum]
    /\ UNCHANGED <<Redirects, Propagator, Archive, Saved, Threads, Net, Source>>

\* The base states DiffRecords is called with: the state itself, and states
\* built by Reset, with and without cached checksums.
DiffBaseInputs ==
    {<<MakeRecord(<<1, 1>>, 0, 0, ExternalView(StructA, 0), ExternalView(StructC, 0))>>,
     <<MakeRecord(<<1, 1>>, 0, 0, ExternalView(StructA, 0), ExternalView(StructC, 0)),
       MakeRecord(<<1, 2>>, 0, 0, NullView, ExternalView(StructC, 0))>>,
     <<MakeRecord(<<1, 1>>, 1, 0, ExternalView(StructA, 1), NullView),
       MakeRecord(<<2, 1>>, 0, 0, ExternalView(StructA, 0), NullView)>>,
     <<MakeRecord(<<1, 2>>, 0, 0, NullView, ExternalView(StructC, 0)),
       MakeRecord(<<2, 1>>, 0, 0, ExternalView(StructA, 0), NullView)>>}

DiffBases(S) ==
    {S} \cup {Reset(EmptyState, l) : l \in DiffBaseInputs}
        \cup {GetChecksum(Reset(EmptyState, l)) : l \in DiffBaseInputs}

DiffRecordsAction ==
    \E InBaseState \in DiffBases(RegistryState) :
        /\ Running
        /\ RegistryState' = DiffRecords(RegistryState, InBaseState)
        /\ Call' = [Op |-> "DiffRecords", Arg |-> RecordDataSeq(InBaseState), Result |-> FALSE]
        /\ UNCHANGED <<Redirects, Propagator, Archive, Saved, Threads, Net, Source>>

LoadStateStep(Ar, bIsCooked) ==
    /\ Running
    /\ RegistryState' = LoadState(RegistryState, Ar, bIsCooked).State
    /\ Call' = [Op |-> "LoadState", Arg |-> bIsCooked,
                Result |-> LoadState(RegistryState, Ar, bIsCooked).Result,
                Before |-> GetRecordsNum(RegistryState)]
    /\ UNCHANGED <<Redirects, Propagator, Archive, Saved, Threads, Net, Source>>

LoadStateAction ==
    \E Ar \in ArchiveInputs, bIsCooked \in BOOLEAN : LoadStateStep(Ar, bIsCooked)

Next ==
    \/ ResetAction
    \/ AppendDataAction
    \/ RemoveDataAction
    \/ GetChecksumAction
    \/ DiffRecordsAction
    \/ LoadStateAction

Spec == Init /\ [][Next]_vars

(***************************************************************************)
(* Saving and loading the registry file. The registry is filled by Reset   *)
(* and AppendData, saved, the file possibly damaged or replaced, and       *)
(* loaded again, into the same state or into an emptied one.               *)
(***************************************************************************)
\* A state saved by a build that knew StructOld.
OldBuildState ==
    Reset(EmptyState, <<MakeRecord(<<1, 1>>, 0, 0, ExternalView(StructOld, 0), NullView)>>)

ArchiveAppendInputs ==
    {MakeRecord(<<1, 1>>, 1, 1, ExternalView(StructB, 0), ExternalView(StructC, 0)),
     MakeRecord(<<2, 1>>, 0, 0, ExternalView(StructA, 1), NullView)}

Faults == {"FirstBodyByte", "LastBodyByte", "Magic", "Version", "DataSourceClass"}

Damage(Ar, Fault) ==
    IF Fault = "FirstBodyByte" THEN [Ar EXCEPT !.Body = FlipByte(@, 1)]
    ELSE IF Fault = "LastBodyByte" THEN [Ar EXCEPT !.Body = FlipByte(@, Len(@))]
    ELSE IF Fault = "Magic" THEN [Ar EXCEPT !.Magic = NotMagic]
    ELSE IF Fault = "Version" THEN [Ar EXCEPT !.Version = LatestVersion + 1]
    ELSE [Ar EXCEPT !.DataSourceClass = OtherDataSourceClass]

BodyMatchesChecksum(Ar) == MemCrc32(Ar.Body, 0) = Ar.Checksum

Intact(Ar) ==
    /\ Ar.Magic = Magic
    /\ Ar.Version = LatestVersion
    /\ Ar.DataSourceClass = DataSourceClassName
    /\ BodyMatchesChecksum(Ar)

InitArchive ==
    /\ Redirects = NoRedirects
    /\ Propagator = IdlePropagator
    /\ RegistryState = EmptyState
    /\ Call = [Op |-> "Init", Arg |-> <<>>, Result |-> FALSE]
    /\ \E c \in BOOLEAN : Archive = SaveState(OldBuildState, c)
    /\ Saved = OldBuildState
    /\ Threads = IdleThreads
    /\ Net = NoNet
    /\ Source = IdleSource

ArchiveResetAction == ResetStep(ArchiveResetInputs)

ArchiveAppendAction == AppendDataStep(ArchiveAppendInputs)

SaveStateAction ==
    \E bIsCooking \in BOOLEAN :
        /\ Running
        /\ Archive' = SaveState(RegistryState, bIsCooking)
        /\ Saved' = RegistryState
        /\ Call' = [Op |-> "SaveState", Arg |-> bIsCooking, Result |-> TRUE]
        /\ UNCHANGED <<Net, Source, Redirects, Propagator, RegistryState, Threads>>

\* One fault per file: a damaged body byte or a foreign header field.
DamageAction ==
    \E Fault \in Faults :
        /\ Intact(Archive)
        /\ Archive' = Damage(Archive, Fault)
        /\ Call' = [Op |-> "Damage", Arg |-> Fault, Result |-> FALSE]
        /\ UNCHANGED <<Redirects, Propagator, RegistryState, Saved, Threads, Net, Source>>

LoadArchiveAction ==
    \E bIsCooked \in BOOLEAN : LoadStateStep(Archive, bIsCooked)

NextArchive ==
    \/ ArchiveResetAction
    \/ ArchiveAppendAction
    \/ SaveStateAction
    \/ DamageAction
    \/ LoadArchiveAction

SpecArchive == InitArchive /\ [][NextArchive]_vars


(***************************************************************************)
(* The registry facade: the batch operations of the data source on the     *)
(* game thread, and an item operation that reads on another thread.        *)
(***************************************************************************)
AppendRecordsInputs ==
    {<<>>,
     <<MakeRecord(<<1, 1>>, 0, 0, ExternalView(StructA, 0), ExternalView(StructC, 0))>>,
     <<MakeRecord(<<2, 1>>, 0, 0, ExternalView(StructA, 0), NullView),
       MakeRecord(<<2, 1>>, 0, 0, ExternalView(StructA, 0), NullView)>>,
     <<MakeRecord(<<1, 1>>, 0, 0, ExternalView(StructB, 0), ExternalView(StructC, 0)),
       MakeRecord(<<1, 2>>, 0, 0, NullView, ExternalView(StructC, 0))>>}

RemoveRecordsInputs == {<<<<1, 1>>>>, <<<<1, 2>>, <<2, 1>>>>, <<<<2, 1>>, <<2, 1>>>>}

ResetRecordsInputs ==
    {<<>>,
     <<MakeRecord(<<1, 1>>, 0, 0, ExternalView(StructA, 1), NullView),
       MakeRecord(<<2, 1>>, 0, 0, ExternalView(StructA, 0), NullView)>>}

ItemOperations == {"ResetItem", "ValidateItem", "SynchronizeItem", "SerializeItem"}

ItemIds == {<<1, 1>>, <<2, 1>>}

\* The existing records an operation copies into the propagation context
\* before it changes them.
RECURSIVE CopyOriginals(_, _, _)
CopyOriginals(Original, S, Ids) ==
    IF Ids = <<>> THEN Original
    ELSE LET Pos == GetRecordPtr(S, Head(Ids))
         IN  CopyOriginals(IF Pos # 0
                           THEN AppendDataFrom(Original, S.CustomDataContainer, S.DataContainer[Pos])
                           ELSE Original,
                           S, Tail(Ids))

\* RegistryState after MoveTemp(RegistryState): the containers are empty; the
\* two integers are zeroed by the move assignment of engines before 5.5 and
\* kept by the defaulted one.
MovedFrom(S, bZeroed) ==
    [EmptyState EXCEPT
        !.RepIndexEncodingBitsNum = IF bZeroed THEN 0 ELSE S.RepIndexEncodingBitsNum,
        !.Checksum = IF bZeroed THEN 0 ELSE S.Checksum]

RECURSIVE AppendEach(_, _)
AppendEach(S, Records) ==
    IF Records = <<>> \/ S.Fatal # "" THEN S
    ELSE AppendEach(AppendData(S, Head(Records)), Tail(Records))

RECURSIVE RemoveEachPresent(_, _)
RemoveEachPresent(S, Ids) ==
    IF Ids = <<>> \/ S.Fatal # "" THEN S
    ELSE RemoveEachPresent(RemoveData(S, Head(Ids)), Tail(Ids))

\* What an item operation reads of the record of an id.
ItemView(Data, Id) ==
    IF \E i \in 1..Len(Data) : Data[i].SharedData.PrimaryAssetId = Id
    THEN [Found |-> TRUE,
          DefaultPayload |-> Data[CHOOSE i \in 1..Len(Data) :
                                     Data[i].SharedData.PrimaryAssetId = Id].DefaultPayload]
    ELSE [Found |-> FALSE, DefaultPayload |-> [ScriptStruct |-> NoStruct, Value |-> 0]]

OwnerHoldsLock == Threads.Lock = "Owner"

InitFacade ==
    /\ Redirects = NoRedirects
    /\ Propagator = IdlePropagator
    /\ RegistryState = EmptyState
    /\ Call = [Op |-> "Init", Arg |-> <<>>, Result |-> FALSE]
    /\ Archive = SaveState(EmptyState, FALSE)
    /\ Saved = EmptyState
    /\ Threads = IdleThreads
    /\ Net = NoNet
    /\ Source = IdleSource

\* AppendRecords up to its critical section.
AppendRecordsBegin ==
    \E InRecords \in AppendRecordsInputs :
        LET Ids == [i \in 1..Len(InRecords) |-> GetPrimaryAssetId(InRecords[i])]
            Original == CopyOriginals(EmptyState, RegistryState, Ids)
            NumAdded == Len(InRecords) - GetRecordsNum(Original)
        IN  /\ Running /\ Threads.OwnerPc = "Idle"
            /\ Threads' = [Threads EXCEPT
                    !.OwnerPc = IF InRecords = <<>> THEN "Return" ELSE "Lock",
                    !.Op = "AppendRecords", !.Input = InRecords, !.Result = NumAdded,
                    !.Original = Original,
                    !.PreBatch = RecordDataSeq(RegistryState),
                    !.PostBatch = RecordDataSeq(AppendEach(RegistryState, InRecords))]
            /\ UNCHANGED <<Net, Source, Redirects, Propagator, RegistryState, Call, Archive, Saved>>

\* RemoveRecords up to its critical section.
RemoveRecordsBegin ==
    \E InRecordIds \in RemoveRecordsInputs :
        LET Original == CopyOriginals(EmptyState, RegistryState, InRecordIds)
        IN  /\ Running /\ Threads.OwnerPc = "Idle"
            /\ Threads' = [Threads EXCEPT
                    !.OwnerPc = IF HasRecords(Original) THEN "Lock" ELSE "Return",
                    !.Op = "RemoveRecords", !.Input = InRecordIds, !.Result = 0,
                    !.Original = Original,
                    !.PreBatch = RecordDataSeq(RegistryState),
                    !.PostBatch = RecordDataSeq(RemoveEachPresent(RegistryState, InRecordIds))]
            /\ UNCHANGED <<Net, Source, Redirects, Propagator, RegistryState, Call, Archive, Saved>>

\* ResetRecords up to its critical section: a state that has records is moved
\* into the propagation context.
ResetRecordsBegin ==
    \E InRecords \in ResetRecordsInputs, bZeroed \in BOOLEAN :
        /\ Running /\ Threads.OwnerPc = "Idle"
        /\ RegistryState' = IF HasRecords(RegistryState)
                            THEN MovedFrom(RegistryState, bZeroed)
                            ELSE RegistryState
        /\ Threads' = [Threads EXCEPT
                !.OwnerPc = "Lock",
                !.Op = "ResetRecords", !.Input = InRecords, !.Result = 0,
                !.Original = IF HasRecords(RegistryState) THEN RegistryState ELSE EmptyState,
                !.PreBatch = RecordDataSeq(RegistryState),
                !.PostBatch = RecordDataSeq(Reset(RegistryState, InRecords)),
                !.UnlockedWrite = @ \/ (HasRecords(RegistryState) /\ ~OwnerHoldsLock)]
        /\ UNCHANGED <<Net, Source, Redirects, Propagator, Call, Archive, Saved>>

\* FScopeLock Lock(&CriticalSection).
OwnerLock ==
    /\ Running /\ Threads.OwnerPc = "Lock" /\ Threads.Lock = "None"
    /\ Threads' = [Threads EXCEPT !.OwnerPc = "Write", !.Lock = "Owner"]
    /\ UNCHANGED <<Net, Source, Redirects, Propagator, RegistryState, Call, Archive, Saved>>

\* One iteration of the loop of AppendRecords.
AppendRecordsWrite ==
    /\ Running /\ Threads.OwnerPc = "Write" /\ Threads.Op = "AppendRecords"
    /\ Threads.Input # <<>>
    /\ \E bMoved \in ReallocOutcomes(AppendData(RegistryState, Head(Threads.Input))) :
          RegistryState' = ReallocOutcome(AppendData(RegistryState, Head(Threads.Input)), bMoved)
    /\ Threads' = [Threads EXCEPT !.Input = Tail(@),
                                  !.UnlockedWrite = @ \/ ~OwnerHoldsLock]
    /\ UNCHANGED <<Net, Source, Redirects, Propagator, Call, Archive, Saved>>

\* One iteration of the loop of RemoveRecords.
RemoveRecordsWrite ==
    /\ Running /\ Threads.OwnerPc = "Write" /\ Threads.Op = "RemoveRecords"
    /\ Threads.Input # <<>>
    /\ RegistryState' = RemoveData(RegistryState, Head(Threads.Input))
    /\ Threads' = [Threads EXCEPT
            !.Input = Tail(@),
            !.Result = IF RemoveDataResult(RegistryState, Head(Threads.Input)) THEN @ + 1 ELSE @,
            !.UnlockedWrite = @ \/ ~OwnerHoldsLock]
    /\ UNCHANGED <<Net, Source, Redirects, Propagator, Call, Archive, Saved>>

\* RegistryState.Reset(InRecords) of ResetRecords.
ResetRecordsWrite ==
    /\ Running /\ Threads.OwnerPc = "Write" /\ Threads.Op = "ResetRecords"
    /\ RegistryState' = Reset(RegistryState, Threads.Input)
    /\ Threads' = [Threads EXCEPT !.OwnerPc = "Written",
                                  !.UnlockedWrite = @ \/ ~OwnerHoldsLock]
    /\ UNCHANGED <<Net, Source, Redirects, Propagator, Call, Archive, Saved>>

\* The end of the scope of the lock.
OwnerUnlock ==
    /\ Running
    /\ \/ Threads.OwnerPc = "Write" /\ Threads.Op # "ResetRecords" /\ Threads.Input = <<>>
       \/ Threads.OwnerPc = "Written"
    /\ Threads' = [Threads EXCEPT !.OwnerPc = "PostRefresh", !.Lock = "None"]
    /\ UNCHANGED <<Net, Source, Redirects, Propagator, RegistryState, Call, Archive, Saved>>

\* OnPostRefresh: the network checksum is updated when the settings ask for
\* it, then the original records are diffed against the live state.
OnPostRefresh ==
    \E bUpdateNetworkChecksum \in BOOLEAN :
        LET Live == IF bUpdateNetworkChecksum THEN GetChecksum(RegistryState) ELSE RegistryState
            Diffed == DiffRecords(Threads.Original, Live)
        IN  /\ Running /\ Threads.OwnerPc = "PostRefresh"
            /\ RegistryState' = [Live EXCEPT !.Fatal = Diffed.Fatal]
            /\ Threads' = [Threads EXCEPT
                    !.OwnerPc = "Return", !.Original = Diffed,
                    !.UnlockedWrite = @ \/ (Live # RegistryState /\ ~OwnerHoldsLock)]
            /\ UNCHANGED <<Net, Source, Redirects, Propagator, Call, Archive, Saved>>

OwnerReturn ==
    /\ Running /\ Threads.OwnerPc = "Return"
    /\ Call' = [Op |-> Threads.Op, Arg |-> <<>>, Result |-> Threads.Result]
    /\ Threads' = [Threads EXCEPT !.OwnerPc = "Idle", !.Op = "None", !.Result = 0,
                                  !.Original = EmptyState, !.Input = <<>>,
                                  !.PreBatch = RecordDataSeq(RegistryState),
                                  !.PostBatch = RecordDataSeq(RegistryState)]
    /\ UNCHANGED <<Net, Source, Redirects, Propagator, RegistryState, Archive, Saved>>

\* AcquireCriticalSectionForRead on a thread that is not the game thread.
ReaderLock ==
    \E Op \in ItemOperations, Id \in ItemIds :
        /\ Running /\ Threads.ReaderPc = "Idle" /\ Threads.Lock = "None"
        /\ Threads' = [Threads EXCEPT !.ReaderPc = "Locked", !.Lock = "Reader",
                                      !.ReaderOp = Op, !.ReaderId = Id]
        /\ UNCHANGED <<Net, Source, Redirects, Propagator, RegistryState, Call, Archive, Saved>>

\* GetRegistryRecord and the read of the default payload of the record.
ReaderRead ==
    /\ Running /\ Threads.ReaderPc = "Locked"
    /\ Threads' = [Threads EXCEPT
            !.ReaderPc = "Read",
            !.ReaderSaw = ItemView(RecordDataSeq(RegistryState), Threads.ReaderId)]
    /\ UNCHANGED <<Net, Source, Redirects, Propagator, RegistryState, Call, Archive, Saved>>

ReaderUnlock ==
    /\ Running /\ Threads.ReaderPc = "Read"
    /\ Threads' = [Threads EXCEPT !.ReaderPc = "Idle", !.Lock = "None",
                                  !.ReaderOp = IdleThreads.ReaderOp,
                                  !.ReaderId = IdleThreads.ReaderId,
                                  !.ReaderSaw = IdleThreads.ReaderSaw]
    /\ UNCHANGED <<Net, Source, Redirects, Propagator, RegistryState, Call, Archive, Saved>>

NextFacade ==
    \/ AppendRecordsBegin
    \/ RemoveRecordsBegin
    \/ ResetRecordsBegin
    \/ OwnerLock
    \/ AppendRecordsWrite
    \/ RemoveRecordsWrite
    \/ ResetRecordsWrite
    \/ OwnerUnlock
    \/ OnPostRefresh
    \/ OwnerReturn
    \/ ReaderLock
    \/ ReaderRead
    \/ ReaderUnlock

SpecFacade == InitFacade /\ [][NextFacade]_vars



(***************************************************************************)
(* The redirects: the lists of the settings, resolved when the singleton   *)
(* is constructed, changed by the rename of an item definition and read    *)
(* by TryRedirect.                                                         *)
(***************************************************************************)
\* Longest redirect list.
MaxRedirects == 3

Names == {1, 2, 3, 4}

\* The redirectors a list of the settings holds: the links of the chain
\* 1 -> 2 -> 3 -> 4, links back to 1, a second link from 1 and a redirector of
\* a name to itself.
ConfigRedirectors == {<<1, 2>>, <<2, 3>>, <<3, 4>>, <<2, 1>>, <<3, 1>>, <<1, 3>>, <<1, 1>>}

ConfigNameRedirects == ListsUpTo(ConfigRedirectors, MaxRedirects)

ConfigTypeRedirects == <<<<2, 1>>>>

RedirectIds == {<<2, n>> : n \in Names} \cup {<<1, 1>>}

\* The names of the item definitions that are renamed.
RenamedNames == {1, 2, 3}

InitRedirects ==
    /\ \E NameRedirects \in ConfigNameRedirects :
          Redirects = LoadedRedirects(ConfigTypeRedirects, NameRedirects)
    /\ Propagator = IdlePropagator
    /\ RegistryState = EmptyState
    /\ Call = [Op |-> "Init", Arg |-> <<>>, Result |-> FALSE]
    /\ Archive = SaveState(EmptyState, FALSE)
    /\ Saved = EmptyState
    /\ Threads = IdleThreads
    /\ Net = NoNet
    /\ Source = IdleSource

\* The rename of an item definition: AppendRedirects on the name list of the
\* settings and, when it returned true, ForceRefresh.
AppendRedirectsAction ==
    \E OldValue \in RenamedNames, NewValue \in RenamedNames, bInvertCircularDependency \in BOOLEAN :
        LET Appended == AppendRedirects(Redirects.PrimaryAssetNameRedirects, OldValue, NewValue,
                                        bInvertCircularDependency)
        IN  /\ Running
            /\ Len(Appended.Redirects) <= MaxRedirects
            /\ Redirects' = IF Appended.Result
                            THEN [LoadedRedirects(Redirects.PrimaryAssetTypeRedirects,
                                                  Appended.Redirects)
                                    EXCEPT !.bDiverged = @ \/ Appended.Diverged]
                            ELSE [Redirects EXCEPT !.bDiverged = @ \/ Appended.Diverged]
            /\ RegistryState' = [RegistryState EXCEPT !.Fatal = Appended.Fatal]
            /\ Call' = [Op |-> "AppendRedirects",
                        Arg |-> <<OldValue, NewValue, bInvertCircularDependency>>,
                        Result |-> Appended.Result]
            /\ UNCHANGED <<Propagator, Archive, Saved, Threads, Net, Source>>

\* CleanupRedirects on the name list of the settings, as the removal of an
\* item definition calls it, and, when it returned true, ForceRefresh.
CleanupRedirectsAction ==
    \E TargetValue \in Names, bRecursively \in BOOLEAN :
        LET Cleaned == CleanupRedirects(Redirects.PrimaryAssetNameRedirects, TargetValue,
                                        bRecursively)
        IN  /\ Running
            /\ Redirects' = IF Cleaned.Result
                            THEN LoadedRedirects(Redirects.PrimaryAssetTypeRedirects,
                                                 Cleaned.Redirects)
                            ELSE Redirects
            /\ Call' = [Op |-> "CleanupRedirects",
                        Arg |-> <<Redirects.PrimaryAssetNameRedirects, TargetValue, bRecursively>>,
                        Result |-> Cleaned.Result]
            /\ UNCHANGED <<RegistryState, Propagator, Archive, Saved, Threads, Net, Source>>

TryRedirectAction ==
    \E InPrimaryAssetId \in RedirectIds :
        /\ Running
        /\ Call' = [Op |-> "TryRedirect", Arg |-> InPrimaryAssetId,
                    Result |-> <<TryRedirectResult(Redirects, InPrimaryAssetId),
                                 TryRedirect(Redirects, InPrimaryAssetId)>>]
        /\ UNCHANGED <<RegistryState, Redirects, Propagator, Archive, Saved, Threads, Net, Source>>

\* The ids TraversePermutations is called with and the calls on which the
\* predicate returns false.
TraverseIds == {1, 2} \X Names
PredicateInputs == {0, 1, 2}

TraversePermutationsAction ==
    \E InPrimaryAssetId \in TraverseIds, FalseAt \in PredicateInputs :
        /\ Running
        /\ Call' = [Op |-> "TraversePermutations", Arg |-> <<InPrimaryAssetId, FalseAt>>,
                    Result |-> TraversePermutations(Redirects, InPrimaryAssetId, FalseAt)]
        /\ UNCHANGED <<RegistryState, Redirects, Propagator, Archive, Saved, Threads, Net, Source>>

NextRedirects ==
    \/ AppendRedirectsAction
    \/ CleanupRedirectsAction
    \/ TraversePermutationsAction
    \/ TryRedirectAction

SpecRedirects == InitRedirects /\ [][NextRedirects]_vars


(***************************************************************************)
(* Net serialization of item ids: the local registry is reset, appended    *)
(* to, removed from and asked for its checksum; the remote end writes an   *)
(* id with NetSerializeItem and the local end reads it.                    *)
(***************************************************************************)
NetRecord(Id, ScriptStruct) == MakeRecord(Id, 0, 0, ExternalView(ScriptStruct, 0), NullView)

\* Record lists of the local and of the remote registry.
NetResetInputs ==
    {<<>>,
     <<NetRecord(<<1, 1>>, StructA), NetRecord(<<1, 2>>, StructA)>>,
     <<NetRecord(<<1, 1>>, StructB), NetRecord(<<1, 2>>, StructA)>>,
     <<NetRecord(<<1, 1>>, StructA), NetRecord(<<1, 2>>, StructA), NetRecord(<<2, 1>>, StructA)>>}

\* Records appended to the local registry: an update that changes the type
\* of a payload and an insert.
NetAppendInputs == {NetRecord(<<1, 1>>, StructB), NetRecord(<<2, 1>>, StructA)}

InitNet ==
    /\ \E InRegistryData \in NetResetInputs, bWithNetworkChecksum \in BOOLEAN :
          Net = [Remote |-> Reset(EmptyState, InRegistryData), Message |-> <<>>,
                 bWithNetworkChecksum |-> bWithNetworkChecksum]
    /\ Source = IdleSource
    /\ Redirects = NoRedirects
    /\ Propagator = IdlePropagator
    /\ RegistryState = EmptyState
    /\ Call = [Op |-> "Init", Arg |-> <<>>, Result |-> FALSE]
    /\ Archive = SaveState(EmptyState, FALSE)
    /\ Saved = EmptyState
    /\ Threads = IdleThreads

NetResetAction == Net.Message = <<>> /\ ResetStep(NetResetInputs)
NetAppendDataAction == Net.Message = <<>> /\ AppendDataStep(NetAppendInputs)
NetRemoveDataAction == Net.Message = <<>> /\ RemoveDataAction
NetGetChecksumAction == Net.Message = <<>> /\ GetChecksumAction

\* The local end loads the file the remote end saved.
NetLoadStateAction ==
    /\ Net.Message = <<>>
    /\ LoadStateStep(SaveState(Net.Remote, FALSE), FALSE)

\* The remote end writes an id.
NetSerializeItemSaveAction ==
    \E InPrimaryAssetId \in RecordIds :
        /\ Running /\ Net.Message = <<>>
        /\ Net' = [Net EXCEPT !.Message =
                      <<NetSerializeItemSave(Net.Remote, InPrimaryAssetId,
                                             Net.bWithNetworkChecksum)>>]
        /\ Call' = [Op |-> "NetSerializeItemSave", Arg |-> InPrimaryAssetId, Result |-> FALSE]
        /\ UNCHANGED <<RegistryState, Redirects, Propagator, Archive, Saved, Threads, Source>>

\* The local end reads the id; the caller's success flag is true before.
NetSerializeItemLoadAction ==
    /\ Running /\ Net.Message # <<>>
    /\ Net' = [Net EXCEPT !.Message = <<>>]
    /\ Call' = [Op |-> "NetSerializeItem", Arg |-> Call.Arg,
                Result |-> NetSerializeItemLoad(RegistryState, Net.Message[1], TRUE,
                                                Net.bWithNetworkChecksum)]
    /\ UNCHANGED <<RegistryState, Redirects, Propagator, Archive, Saved, Threads, Source>>

NextNet ==
    \/ NetResetAction
    \/ NetAppendDataAction
    \/ NetRemoveDataAction
    \/ NetGetChecksumAction
    \/ NetLoadStateAction
    \/ NetSerializeItemSaveAction
    \/ NetSerializeItemLoadAction

SpecNet == InitNet /\ [][NextNet]_vars

(***************************************************************************)
(* The asset manager data source and the cooking mode of the registry: the *)
(* refresh of the registry from preloaded assets, the cook callbacks, and  *)
(* the contract the registry checks on every batch operation. All of it    *)
(* runs on the game thread except a batch operation called from a worker.  *)
(***************************************************************************)
\* Preloads that are started.
MaxPreloads == 2

\* The assets a preload finds, as the records BulkRefresh makes of them.
SourceAssets ==
    <<<<NetRecord(<<1, 1>>, StructA)>>,
      <<NetRecord(<<1, 1>>, StructB), NetRecord(<<2, 1>>, StructA)>>>>

\* What PreloadPrimaryAssets returns: a null handle when no asset is found, a
\* handle whose load is in progress, or a handle whose assets were all in
\* memory and whose complete delegate is called on a later frame.
PreloadOutcomes(D) ==
    IF Len(D.Handles) < MaxPreloads THEN {"None", "Loading", "Completed"} ELSE {"None"}

CallingThreads == {"GameThread", "Worker"}

\* FStreamableHandle: IsActive, HasLoadCompleted, CancelHandle, ReleaseHandle.
HandleIsActive(Handle) == ~Handle.bCanceled /\ ~Handle.bReleased
HasLoadCompleted(Handle) == Handle.bLoadCompleted
CancelHandle(Handle) == [Handle EXCEPT !.bCanceled = TRUE, !.bDelegate = FALSE]
ReleaseHandle(Handle) ==
    IF Handle.bCanceled \/ Handle.bReleased THEN Handle
    ELSE IF Handle.bLoadCompleted THEN [Handle EXCEPT !.bReleased = TRUE]
    ELSE [Handle EXCEPT !.bReleaseWhenLoaded = TRUE]

\* A variant of CheckDataSourceContractViolation without the check of IsCooking().
CheckDataSourceContractViolation_CookUnchecked(D, Thread) ==
    IF Thread # "GameThread"
    THEN "Data source attempts to modify the registry outside of the game thread"
    ELSE IF D.bIsPersistent /\ D.bIsInitialized /\ D.bPlayInEditorWorld
    THEN "Persistent data source attempts to modify the registry"
    ELSE ""

\* The checkf of CheckDataSourceContractViolation that fails, "" when none does.
CheckDataSourceContractViolation(D, Thread) ==
    IF Thread # "GameThread"
    THEN "Data source attempts to modify the registry outside of the game thread"
    ELSE IF D.bIsPersistent /\ D.bIsInitialized /\ D.bPlayInEditorWorld
    THEN "Persistent data source attempts to modify the registry"
    ELSE IF D.bIsCooking
    THEN "Data source attempts to modify the cooked registry state"
    ELSE ""

\* The records a batch operation writes under the lock.
RegistryWrite(S, Op, Input) ==
    IF Op = "AppendRecords" THEN AppendEach(S, Input)
    ELSE IF Op = "RemoveRecords" THEN RemoveEachPresent(S, Input)
    ELSE Reset(S, Input)

\* Whether a batch operation on S reaches OnPostRefresh.
ReachesOnPostRefresh(S, Op, Input) ==
    \/ Op = "ResetRecords"
    \/ Op = "AppendRecords" /\ Input # <<>>
    \/ Op = "RemoveRecords" /\ \E i \in 1..Len(Input) : ContainsRecord(S, Input[i])

\* ConditionallyUpdateNetworkChecksum of OnPostRefresh: the checksum is
\* computed when the data source is persistent and the settings ask for it.
ConditionallyUpdateNetworkChecksum(Written, D) ==
    IF Written.Fatal = "" /\ D.bIsPersistent /\ D.bRegisterNetworkCustomVersion
    THEN GetChecksum(Written) ELSE Written

IsPendingRefresh(D) ==
    D.bIsPendingRefresh /\ D.PreloadHandle # 0 /\ HandleIsActive(D.Handles[D.PreloadHandle])

IsRefreshing(D) == D.bIsRefreshing

CanRefreshRegistry(D) ==
    (~D.bIsInitialized \/ ~D.bPlayInEditorWorld) /\ ~D.bIsCooking

\* What a function of the data source did: the data source after it, the
\* handle whose assets it handed to ResetRecords (0 when it did not call
\* ResetRecords), and the check of the registry that aborted the call.
Untouched(D) == [Source |-> D, Reset |-> 0, Violation |-> ""]

\* BulkRefresh up to the broadcast of ResetRecords: the registry is reset to
\* the loaded assets under the guard of bIsRefreshing. Applied counts the
\* calls of ResetRecords with the assets of the handle that were not aborted.
BulkRefresh(D) ==
    IF ~IsRefreshing(D) /\ IsPendingRefresh(D) /\ HasLoadCompleted(D.Handles[D.PreloadHandle])
    THEN IF CheckDataSourceContractViolation(D, "GameThread") # ""
         THEN [Source |-> D, Reset |-> 0,
               Violation |-> CheckDataSourceContractViolation(D, "GameThread")]
         ELSE [Source |-> [D EXCEPT !.bIsRefreshing = TRUE,
                                    !.Pc = "Refreshing",
                                    !.Handles[D.PreloadHandle].Applied = @ + 1],
               Reset |-> D.PreloadHandle,
               Violation |-> ""]
    ELSE Untouched(D)

\* BulkRefresh after ResetRecords returned: the handle is released unless the
\* assets are kept, nothing is pending, and the guard restores bIsRefreshing.
BulkRefreshReturn(D) ==
    [D EXCEPT
        !.Handles = IF ~D.bKeepLoadedAssets /\ D.PreloadHandle # 0
                    THEN [@ EXCEPT ![D.PreloadHandle] = ReleaseHandle(@)] ELSE @,
        !.bIsPendingRefresh = FALSE,
        !.bIsRefreshing = FALSE,
        !.Pc = "Idle"]

\* FlushPendingRefresh: the complete delegate of a load in progress is unbound,
\* the load is waited for, and BulkRefresh is called.
FlushPendingRefresh(D) ==
    IF IsPendingRefresh(D)
    THEN BulkRefresh([D EXCEPT
            !.Handles[D.PreloadHandle].bDelegate = IF D.Handles[D.PreloadHandle].bLoadCompleted
                                                   THEN @ ELSE FALSE,
            !.Handles[D.PreloadHandle].bLoadCompleted = TRUE])
    ELSE Untouched(D)

\* The handle PreloadPrimaryAssets returns when it finds assets.
NewHandle(Outcome, Assets) ==
    [bLoadCompleted |-> Outcome = "Completed", bCanceled |-> FALSE,
     bReleased |-> FALSE, bReleaseWhenLoaded |-> FALSE,
     bDelegate |-> TRUE, Assets |-> Assets, Applied |-> 0]

\* PreloadHandle = PreloadPrimaryAssets() and the flag set for an active handle.
Preload(D, Outcome, Assets) ==
    IF Outcome = "None" THEN [D EXCEPT !.PreloadHandle = 0]
    ELSE [D EXCEPT !.Handles = Append(@, NewHandle(Outcome, Assets)),
                   !.PreloadHandle = Len(D.Handles) + 1,
                   !.bIsPendingRefresh = TRUE]

\* A variant of ForceRefresh that preloads whether or not a refresh is pending.
ForceRefresh_AlwaysPreload(D, bSynchronous, Outcome, Assets) ==
    IF CanRefreshRegistry(D)
    THEN IF bSynchronous
         THEN FlushPendingRefresh(Preload(D, Outcome, Assets))
         ELSE Untouched(Preload(D, Outcome, Assets))
    ELSE Untouched(D)

\* ForceRefresh: a preload is started unless one is pending, and a synchronous
\* call flushes it.
ForceRefresh(D, bSynchronous, Outcome, Assets) ==
    IF CanRefreshRegistry(D)
    THEN IF bSynchronous
         THEN FlushPendingRefresh(IF IsPendingRefresh(D) THEN D ELSE Preload(D, Outcome, Assets))
         ELSE Untouched(IF IsPendingRefresh(D) THEN D ELSE Preload(D, Outcome, Assets))
    ELSE Untouched(D)

CancelPendingRefresh(D) ==
    IF IsPendingRefresh(D)
    THEN [D EXCEPT !.Handles[D.PreloadHandle] = CancelHandle(@),
                   !.bIsPendingRefresh = FALSE]
    ELSE D

\* OnCookStarted of the data source: the pending refresh is cancelled and a
\* synchronous one is made for the cook.
SourceOnCookStarted(D, Outcome, Assets) ==
    ForceRefresh(CancelPendingRefresh([D EXCEPT !.bIsPendingCook = TRUE]), TRUE, Outcome, Assets)

\* OnCookFinished of the data source.
SourceOnCookFinished(D, bIsRunningCookCommandlet, Outcome, Assets) ==
    IF bIsRunningCookCommandlet THEN Untouched([D EXCEPT !.bIsPendingCook = FALSE])
    ELSE ForceRefresh([D EXCEPT !.bIsPendingCook = FALSE], TRUE, Outcome, Assets)

\* What the caller of BulkRefresh does when it returns: OnCookStarted of the
\* registry enters the cooking mode, PostInitialize blocks further updates.
Continue(D, Caller) ==
    IF Caller = "OnCookStarted" THEN [D EXCEPT !.bIsCooking = TRUE, !.Caller = "None"]
    ELSE IF Caller = "PostInitialize" THEN [D EXCEPT !.bIsInitialized = TRUE, !.Caller = "None"]
    ELSE [D EXCEPT !.Caller = "None"]

\* The step of a function Op of the data source: the registry is reset when
\* the function ran into BulkRefresh, and the function is then pending as
\* Caller while ResetRecords broadcasts; else the function returns.
SourceStep(Op, Outcome) ==
    /\ \E Written \in {IF Outcome.Reset # 0
                        THEN RegistryWrite(RegistryState, "ResetRecords",
                                 SourceAssets[Outcome.Source.Handles[Outcome.Reset].Assets])
                        ELSE RegistryState} :
          RegistryState' =
              IF Outcome.Violation # "" THEN [RegistryState EXCEPT !.Fatal = Outcome.Violation]
              ELSE IF Outcome.Reset # 0
              THEN ConditionallyUpdateNetworkChecksum(Written, Source)
              ELSE RegistryState
    /\ Source' = IF Outcome.Violation # "" THEN Outcome.Source
                 ELSE IF Outcome.Reset # 0 THEN [Outcome.Source EXCEPT !.Caller = Op]
                 ELSE IF Source.Pc = "Idle" THEN Continue(Outcome.Source, Op)
                 ELSE Outcome.Source
    /\ Call' = [Op |-> Op, Arg |-> <<>>,
                Result |-> IF Outcome.Violation # "" THEN "Fatal" ELSE "Done"]
    /\ UNCHANGED <<Archive, Saved, Threads, Redirects, Propagator, Net>>

\* The traits of the data source class, whether it keeps the loaded assets,
\* and the setting bRegisterNetworkCustomVersion.
SourceConfigs ==
    {<<TRUE, FALSE, TRUE>>, <<TRUE, TRUE, FALSE>>, <<FALSE, FALSE, FALSE>>, <<FALSE, TRUE, TRUE>>}

InitSource ==
    /\ Redirects = NoRedirects
    /\ Propagator = IdlePropagator
    /\ RegistryState = EmptyState
    /\ Call = [Op |-> "Init", Arg |-> <<>>, Result |-> "None"]
    /\ Archive = SaveState(EmptyState, FALSE)
    /\ Saved = EmptyState
    /\ Threads = IdleThreads
    /\ Net = NoNet
    /\ \E Config \in SourceConfigs :
          Source = [IdleSource EXCEPT
                      !.bIsPersistent = Config[1],
                      !.bKeepLoadedAssets = Config[2],
                      !.bRegisterNetworkCustomVersion = Config[3]]

\* PostInitialize of the data source when the registry was not loaded from a
\* file: a synchronous refresh, then updates are blocked during the game.
PostInitializeAction ==
    \E Outcome \in PreloadOutcomes(Source), Assets \in DOMAIN SourceAssets :
        /\ Running /\ Source.Pc = "Idle" /\ ~Source.bIsInitialized
        /\ \E Done \in {ForceRefresh(Source, TRUE, Outcome, Assets)} :
              SourceStep("PostInitialize", Done)

\* ForceRefresh, also called by a listener of the refresh in progress.
ForceRefreshAction ==
    \E bSynchronous \in BOOLEAN, Outcome \in PreloadOutcomes(Source),
       Assets \in DOMAIN SourceAssets :
        /\ Running
        /\ \E Done \in {ForceRefresh(Source, bSynchronous, Outcome, Assets)} :
              SourceStep("ForceRefresh", Done)

\* CancelPendingRefresh, also called by a listener of the refresh in progress.
CancelPendingRefreshAction ==
    /\ Running
    /\ \E Done \in {Untouched(CancelPendingRefresh(Source))} :
          SourceStep("CancelPendingRefresh", Done)

\* The streamable manager completes the load of a handle.
LoadCompleted ==
    \E h \in 1..Len(Source.Handles) :
        /\ Running /\ Source.Pc = "Idle"
        /\ ~Source.Handles[h].bLoadCompleted /\ ~Source.Handles[h].bCanceled
        /\ \E Done \in {Untouched([Source EXCEPT !.Handles[h].bLoadCompleted = TRUE])} :
              SourceStep("LoadCompleted", Done)

\* The streamable manager calls the complete delegate of a handle, which is
\* BulkRefresh, and then releases a handle that was released while loading.
CompleteDelegate ==
    \E h \in 1..Len(Source.Handles) :
        /\ Running /\ Source.Pc = "Idle"
        /\ Source.Handles[h].bLoadCompleted /\ Source.Handles[h].bDelegate
        /\ ~Source.Handles[h].bCanceled
        /\ \E Done \in {BulkRefresh([Source EXCEPT
                            !.Handles[h].bDelegate = FALSE,
                            !.Handles[h].bReleased = @ \/ Source.Handles[h].bReleaseWhenLoaded])} :
              SourceStep("BulkRefresh", Done)

\* ResetRecords returned to BulkRefresh, and BulkRefresh to its caller.
BulkRefreshReturnAction ==
    /\ Running /\ Source.Pc = "Refreshing"
    /\ Source' = Continue(BulkRefreshReturn(Source), Source.Caller)
    /\ Call' = [Op |-> "BulkRefreshReturn", Arg |-> <<>>, Result |-> "Done"]
    /\ UNCHANGED <<RegistryState, Archive, Saved, Threads, Redirects, Propagator, Net>>

\* OnCookStarted of the registry: the data source is told, then bIsCooking is set.
OnCookStartedAction ==
    \E Outcome \in PreloadOutcomes(Source), Assets \in DOMAIN SourceAssets :
        /\ Running /\ Source.Pc = "Idle" /\ ~Source.bIsCooking
        /\ \E Done \in {SourceOnCookStarted(Source, Outcome, Assets)} :
              SourceStep("OnCookStarted", Done)

\* OnCookFinished of the registry: bIsCooking is cleared, then the data source
\* is told.
OnCookFinishedAction ==
    \E bIsRunningCookCommandlet \in BOOLEAN, Outcome \in PreloadOutcomes(Source),
       Assets \in DOMAIN SourceAssets :
        /\ Running /\ Source.Pc = "Idle" /\ Source.bIsCooking
        /\ \E Done \in {SourceOnCookFinished([Source EXCEPT !.bIsCooking = FALSE],
                                             bIsRunningCookCommandlet, Outcome, Assets)} :
              SourceStep("OnCookFinished", Done)

\* The editor enters or leaves the world of a play-in-editor session.
PlayInEditorAction ==
    /\ Running /\ Source.Pc = "Idle"
    /\ \E Done \in {Untouched([Source EXCEPT !.bPlayInEditorWorld = ~@])} :
          SourceStep("PlayInEditor", Done)

SourceBatchInputs ==
    {<<"AppendRecords", <<NetRecord(<<2, 1>>, StructA)>>>>,
     <<"RemoveRecords", <<<<2, 1>>>>>>,
     <<"ResetRecords", <<NetRecord(<<1, 1>>, StructB), NetRecord(<<2, 1>>, StructA)>>>>}

\* A data source calls AppendRecords, RemoveRecords or ResetRecords: on the
\* game thread between two functions, or on a worker thread at any time.
RegistryOperationAction ==
    \E Thread \in CallingThreads, Batch \in SourceBatchInputs :
        /\ Running
        /\ Thread = "GameThread" => Source.Pc = "Idle"
        /\ \E Violation \in {CheckDataSourceContractViolation(Source, Thread)},
              Written \in {RegistryWrite(RegistryState, Batch[1], Batch[2])} :
              RegistryState' =
                  IF Violation # "" THEN [RegistryState EXCEPT !.Fatal = Violation]
                  ELSE IF ReachesOnPostRefresh(RegistryState, Batch[1], Batch[2])
                  THEN ConditionallyUpdateNetworkChecksum(Written, Source)
                  ELSE Written
        /\ Call' = [Op |-> Batch[1], Arg |-> <<Thread>>,
                    Result |-> IF RegistryState'.Fatal # "" THEN "Fatal" ELSE "Done"]
        /\ UNCHANGED <<Source, Archive, Saved, Threads, Redirects, Propagator, Net>>

NextSource ==
    \/ PostInitializeAction
    \/ ForceRefreshAction
    \/ CancelPendingRefreshAction
    \/ LoadCompleted
    \/ CompleteDelegate
    \/ BulkRefreshReturnAction
    \/ OnCookStartedAction
    \/ OnCookFinishedAction
    \/ PlayInEditorAction
    \/ RegistryOperationAction

SpecSource == InitSource /\ [][NextSource]_vars

(***************************************************************************)
(* Defaults propagation: the batch operations of the data source on the    *)
(* game thread, each run through OnPostRefresh up to the first object of   *)
(* the propagation it starts, the visit of one gathered object and the     *)
(* end of the propagation. A listener or a visited object may call         *)
(* AppendRecords while a propagation is in progress.                       *)
(***************************************************************************)
\* Propagations that are started.
MaxPropagations == 2

PayloadRecord(Id, ScriptStruct, Fields) ==
    MakeRecord(Id, 0, 0, ExternalView(ScriptStruct, EncodeFields(Fields)), NullView)

\* The records the registry is constructed with.
PropagatorInitialRecords ==
    <<PayloadRecord(<<1, 1>>, StructA, <<0, 0>>), PayloadRecord(<<1, 2>>, StructA, <<0, 0>>)>>

\* Batches of AppendRecords: a changed property, a changed type, a changed
\* type together with a changed property of another record, and two changed
\* types.
PropagatorAppendInputs ==
    {<<PayloadRecord(<<1, 1>>, StructA, <<1, 0>>)>>,
     <<PayloadRecord(<<1, 1>>, StructB, <<0, 0>>)>>,
     <<PayloadRecord(<<1, 1>>, StructB, <<0, 0>>), PayloadRecord(<<1, 2>>, StructA, <<1, 0>>)>>,
     <<PayloadRecord(<<1, 1>>, StructB, <<1, 1>>), PayloadRecord(<<1, 2>>, StructB, <<0, 0>>)>>}

\* The batch a listener or a visited object appends during a propagation.
NestedAppendInputs == {<<PayloadRecord(<<1, 1>>, StructA, <<1, 0>>)>>}

PropagatorRemoveInputs == {<<<<1, 1>>>>}

PropagatorResetInputs ==
    {PropagatorInitialRecords,
     <<PayloadRecord(<<1, 1>>, StructB, <<0, 0>>), PayloadRecord(<<1, 2>>, StructA, <<0, 0>>)>>}

\* The items the objects hold: the first one refers to <<1, 1>> and has
\* customized the second property, the second one refers to <<1, 2>> and has
\* customized the first property.
ItemInputs ==
    <<[PrimaryAssetId |-> <<1, 1>>,
       Payload |-> [ScriptStruct |-> StructA, Fields |-> FieldsOf(EncodeFields(<<0, 2>>))]],
      [PrimaryAssetId |-> <<1, 2>>,
       Payload |-> [ScriptStruct |-> StructA, Fields |-> FieldsOf(EncodeFields(<<2, 0>>))]]>>

\* What GatherObjectsForPropagation collects: nothing, or both objects and
\* the first one a second time.
GatherInputs == {<<>>, <<1, 2, 1>>}

\* The name redirects of the settings: none, or name 1 renamed to name 2.
PropagatorRedirectInputs == {<<>>, <<<<1, 2>>>>}

InitPropagator ==
    /\ \E NameRedirects \in PropagatorRedirectInputs :
          Redirects = LoadedRedirects(<<>>, NameRedirects)
    /\ \E bRegister \in BOOLEAN :
          Propagator = [IdlePropagator EXCEPT !.Items = ItemInputs,
                                              !.bRegisterNetworkCustomVersion = bRegister]
    /\ RegistryState = Reset(EmptyState, PropagatorInitialRecords)
    /\ Call = [Op |-> "Init", Arg |-> <<>>, Result |-> "None"]
    /\ Archive = SaveState(EmptyState, FALSE)
    /\ Saved = EmptyState
    /\ Threads = IdleThreads
    /\ Net = NoNet
    /\ Source = IdleSource

RECURSIVE AppendEachMoved(_, _, _)
AppendEachMoved(S, Records, bMoved) ==
    IF Records = <<>> \/ S.Fatal # "" THEN S
    ELSE AppendEachMoved(ReallocOutcome(AppendData(S, Head(Records)), bMoved),
                         Tail(Records), bMoved)

\* OnPostRefresh after the records were written: the network checksum is
\* updated when the settings ask for it, the original records are diffed
\* against the live state and, when records are left, the propagation starts.
PropagatorOnPostRefresh(Op, Arg, Written, Original, Objects) ==
    LET Live == IF Propagator.bRegisterNetworkCustomVersion THEN GetChecksum(Written) ELSE Written
        Diffed == DiffRecords(Original, Live)
        bPropagate == Diffed.Fatal = "" /\ HasRecords(Diffed)
    IN  IF Written.Fatal # ""
        THEN /\ RegistryState' = Written
             /\ Call' = [Op |-> Op, Arg |-> Arg, Result |-> "Fatal"]
             /\ UNCHANGED Propagator
        ELSE /\ RegistryState' = [Live EXCEPT !.Fatal = Diffed.Fatal]
             /\ Propagator' = IF bPropagate
                              THEN PropagateRegistryDefaults(Propagator, Diffed, Objects)
                              ELSE Propagator
             /\ Call' = [Op |-> Op, Arg |-> Arg,
                         Result |-> IF bPropagate
                                    THEN PropagateRegistryDefaultsResult(Propagator, Objects)
                                    ELSE "NoChanges"]

PropagatorAppendRecords ==
    \E InRecords \in IF Propagator.bIsPropagatingDefaults
                      THEN NestedAppendInputs ELSE PropagatorAppendInputs,
       bMoved \in BOOLEAN, Objects \in GatherInputs :
        LET Ids == [i \in 1..Len(InRecords) |-> GetPrimaryAssetId(InRecords[i])]
            Original == CopyOriginals(EmptyState, RegistryState, Ids)
        IN  /\ Running /\ Propagator.PreBroadcasts < MaxPropagations
            /\ PropagatorOnPostRefresh("AppendRecords", InRecords,
                                       AppendEachMoved(RegistryState, InRecords, bMoved),
                                       Original, Objects)
            /\ UNCHANGED <<Redirects, Archive, Saved, Threads, Net, Source>>

PropagatorRemoveRecords ==
    \E InRecordIds \in PropagatorRemoveInputs, Objects \in GatherInputs :
        LET Original == CopyOriginals(EmptyState, RegistryState, InRecordIds)
        IN  /\ Running /\ Propagator.PreBroadcasts < MaxPropagations
            /\ ~Propagator.bIsPropagatingDefaults
            /\ IF HasRecords(Original)
               THEN PropagatorOnPostRefresh("RemoveRecords", InRecordIds,
                                            RemoveEachPresent(RegistryState, InRecordIds),
                                            Original, Objects)
               ELSE /\ Call' = [Op |-> "RemoveRecords", Arg |-> InRecordIds, Result |-> "NoChanges"]
                    /\ UNCHANGED <<RegistryState, Propagator>>
            /\ UNCHANGED <<Redirects, Archive, Saved, Threads, Net, Source>>

PropagatorResetRecords ==
    \E InRecords \in PropagatorResetInputs, bZeroed \in BOOLEAN, Objects \in GatherInputs :
        LET Original == IF HasRecords(RegistryState) THEN RegistryState ELSE EmptyState
            Moved == IF HasRecords(RegistryState) THEN MovedFrom(RegistryState, bZeroed)
                     ELSE RegistryState
        IN  /\ Running /\ Propagator.PreBroadcasts < MaxPropagations
            /\ ~Propagator.bIsPropagatingDefaults
            /\ PropagatorOnPostRefresh("ResetRecords", InRecords, Reset(Moved, InRecords),
                                       Original, Objects)
            /\ UNCHANGED <<Redirects, Archive, Saved, Threads, Net, Source>>

\* Ar << Object for the next gathered object: an object that was not visited
\* is serialized, which hands its item to SerializeItem and, the archive
\* being the one of the propagation, to PropagateItemDefaults.
PropagateObject ==
    LET Object == Head(Propagator.Objects)
        Item == Propagator.Items[Object]
        bVisit == Object \notin Propagator.VisitedObjects
    IN  /\ Running /\ Propagator.bIsPropagatingDefaults /\ Propagator.Objects # <<>>
        /\ \E bFault \in IF bVisit /\ ReadsOutOfStruct(Propagator.Context, RegistryState,
                                                      Redirects, Item)
                         THEN BOOLEAN ELSE {FALSE} :
              LET Propagated == IF bVisit /\ GetContextFromArchive(Propagator, 1)
                                THEN PropagateItemDefaults(Propagator.Context, RegistryState,
                                                           Redirects, Item, bFault)
                                ELSE [Item |-> Item, Fatal |-> ""]
              IN  /\ Propagator' = [Propagator EXCEPT
                                       !.Objects = Tail(@),
                                       !.VisitedObjects = @ \cup {Object},
                                       !.Items[Object] = Propagated.Item]
                  /\ RegistryState' = [RegistryState EXCEPT !.Fatal = Propagated.Fatal]
        /\ Call' = [Op |-> "PropagateObject", Arg |-> Object,
                    Result |-> IF bVisit THEN "Visited" ELSE "Skipped"]
        /\ UNCHANGED <<Redirects, Archive, Saved, Threads, Net, Source>>

\* The end of PropagateRegistryDefaults: the post delegate, then the scope
\* exits that clear the flag and restore the archive pointer.
PropagateEnd ==
    /\ Running /\ Propagator.bIsPropagatingDefaults /\ Propagator.Objects = <<>>
    /\ Propagator' = [Propagator EXCEPT
                         !.PostBroadcasts = @ + 1,
                         !.bIsPropagatingDefaults = FALSE,
                         !.CurrentPropagationArchive = 0,
                         !.Context = EmptyState,
                         !.VisitedObjects = {}]
    /\ Call' = [Op |-> "PropagateEnd", Arg |-> <<>>, Result |-> "Done"]
    /\ UNCHANGED <<RegistryState, Redirects, Archive, Saved, Threads, Net, Source>>

NextPropagator ==
    \/ PropagatorAppendRecords
    \/ PropagatorRemoveRecords
    \/ PropagatorResetRecords
    \/ PropagateObject
    \/ PropagateEnd

SpecPropagator == InitPropagator /\ [][NextPropagator]_vars


(***************************************************************************)
(* Properties                                                              *)
(***************************************************************************)
LiveRecords == RegistryState.DataContainer
RecordsNum == Len(RegistryState.DataContainer)
\* C1: the record at 0-based position i has replication index i + 1, the valid
\* replication indices are exactly 1..N, and GetRecordFromReplication(r) is the
\* record at position r - 1 for 1 <= r <= N and nothing for r = 0 and r > N.
C1_ReplicationIndexDensity ==
    Running =>
        /\ \A i \in 1..RecordsNum : LiveRecords[i].RepIndex = (i - 1) + 1
        /\ {LiveRecords[i].RepIndex : i \in 1..RecordsNum} = 1..RecordsNum
        /\ \A r \in 0..(RecordsNum + 2) :
              GetRecordFromReplication(RegistryState, r)
                 = IF 1 <= r /\ r <= RecordsNum THEN (r - 1) + 1 ELSE 0

C1_Witness ==
    /\ Running
    /\ Call.Op = "RemoveData" /\ Call.Result = TRUE
    /\ RecordsNum = 2
    /\ GetRecordFromReplication(RegistryState, 2) = 2

\* C2: the record array is strictly increasing by id (type first, then name),
\* and a Reset whose input holds the same id twice ends in a fatal check.
StrictlySorted(Array) ==
    \A i \in 1..(Len(Array) - 1) :
        LET a == GetPrimaryAssetId(Array[i])
            b == GetPrimaryAssetId(Array[i + 1])
        IN  a[1] < b[1] \/ (a[1] = b[1] /\ a[2] < b[2])

SameIdTwice(List) ==
    \E i \in 1..Len(List) : \E j \in (i + 1)..Len(List) :
        List[i].SharedData.PrimaryAssetId = List[j].SharedData.PrimaryAssetId

C2_SortedNoDuplicates ==
    /\ Running => StrictlySorted(LiveRecords)
    /\ (Call.Op = "Reset" /\ SameIdTwice(Call.Arg)) => ~Running
    /\ (Call.Op = "Reset" /\ Running) =>
            /\ RecordsNum = Len(Call.Arg)
            /\ StoredIds(RegistryState) = {GetPrimaryAssetId(Call.Arg[i]) : i \in 1..Len(Call.Arg)}

C2_Witness ==
    /\ Call.Op = "Reset"
    /\ SameIdTwice(Call.Arg)
    /\ RegistryState.Fatal = "duplicated FPrimaryAssetId"


\* The blobs a record owns: one per valid view.
OwnedBlobs(Record) ==
    (IF ViewIsValid(Record.DefaultPayload) THEN 1 ELSE 0)
    + (IF ViewIsValid(Record.CustomData) THEN 1 ELSE 0)

WithoutPosition(Array, Pos) ==
    [k \in 1..(Len(Array) - 1) |-> IF k < Pos THEN Array[k] ELSE Array[k + 1]]

PositionOf(S, Id) ==
    CHOOSE i \in 1..Len(S.DataContainer) : GetPrimaryAssetId(S.DataContainer[i]) = Id

\* C3: RemoveData(id) of an absent id returns false and changes nothing; of a
\* present id it completes (no out-of-range index into the blob store), returns
\* true, removes that record and exactly its blobs, and every remaining record
\* denotes the same values as before.
C3_RemoveDataStep ==
    (Running /\ Call'.Op = "RemoveData") =>
        LET Id == Call'.Arg IN
        IF Id \notin StoredIds(RegistryState)
        THEN Call'.Result = FALSE /\ RegistryState' = RegistryState
        ELSE /\ RegistryState'.Fatal = ""
             /\ Call'.Result = TRUE
             /\ RecordDataSeq(RegistryState')
                  = WithoutPosition(RecordDataSeq(RegistryState), PositionOf(RegistryState, Id))
             /\ Len(RegistryState'.CustomDataContainer)
                  = Len(RegistryState.CustomDataContainer)
                    - OwnedBlobs(LiveRecords[PositionOf(RegistryState, Id)])

C3_RemoveDataSafe == [][C3_RemoveDataStep]_vars

(***************************************************************************)
(* Checksums computed from scratch, without any cached value.              *)
(***************************************************************************)
\* The payload a record stores: the blob its index names.
StoredValue(S, Index) ==
    IF IsValidIndex(S.CustomDataContainer, Index)
    THEN S.CustomDataContainer[Index + 1]
    ELSE [ScriptStruct |-> NoStruct, Value |-> 0]

FreshRecordChecksum(S, Pos) ==
    LET Record == S.DataContainer[Pos]
        c1 == StrCrc32(ExportSharedData(Record.SharedData), 0)
        c2 == StrCrc32(ExportScriptStruct(StoredValue(S, Record.DefaultPayloadIndex)), c1)
        c3 == StrCrc32(ExportScriptStruct(StoredValue(S, Record.CustomDataIndex)), c2)
    IN  StrCrc32(Record.AssetPath, c3)

\* The runs of records of one type, in array order, as sets of positions.
TypeRuns(S) ==
    LET N == Len(S.DataContainer)
        TypeAt(i) == S.DataContainer[i].SharedData.PrimaryAssetId[1]
        Starts == {i \in 1..N : i = 1 \/ TypeAt(i - 1) # TypeAt(i)}
        Nth(k) == CHOOSE i \in Starts : Cardinality({j \in Starts : j < i}) = k - 1
        Last(k) == IF k = Cardinality(Starts) THEN N ELSE Nth(k + 1) - 1
    IN  [k \in 1..Cardinality(Starts) |-> [First |-> Nth(k), Last |-> Last(k)]]

FreshGroupChecksum(S, Run) ==
    CombineCrc([j \in 1..(Run.Last - Run.First + 1) |-> FreshRecordChecksum(S, Run.First + j - 1)], 0)

FreshChecksum(S) ==
    LET Runs == TypeRuns(S)
    IN  CombineCrc([k \in 1..Len(Runs) |-> FreshGroupChecksum(S, Runs[k])], 0)

\* C5: GetChecksum() returns the from-scratch value, and no cached checksum
\* (top level, archetype group, record) is stale.
C5_ChecksumNeverStale ==
    Running =>
        /\ GetChecksum(RegistryState).Checksum = FreshChecksum(RegistryState)
        /\ RegistryState.Checksum # 0 => RegistryState.Checksum = FreshChecksum(RegistryState)
        /\ Len(RegistryState.Archetypes) = Len(TypeRuns(RegistryState))
        /\ \A k \in 1..Len(RegistryState.Archetypes) :
              RegistryState.Archetypes[k].Checksum # 0 =>
                 RegistryState.Archetypes[k].Checksum
                    = FreshGroupChecksum(RegistryState, TypeRuns(RegistryState)[k])
        /\ \A i \in 1..RecordsNum :
              LiveRecords[i].Checksum # 0 => LiveRecords[i].Checksum = FreshRecordChecksum(RegistryState, i)
        /\ Call.Op = "GetChecksum" => Call.Result = FreshChecksum(RegistryState)

C5_Witness ==
    /\ Running
    /\ Call.Op = "AppendData" /\ Call.Result = FALSE
    /\ RecordsNum = 3
    /\ RegistryState.Checksum = 0
    /\ \E k \in 1..Len(RegistryState.Archetypes) : RegistryState.Archetypes[k].Checksum # 0
    /\ \E i \in 1..RecordsNum : LiveRecords[i].Checksum # 0
    /\ GetChecksum(RegistryState).Checksum # 0

\* C6: an AppendData or RemoveData that touches a record of group G1 leaves
\* the cached checksum of every other record and of every other group as it
\* was, whether or not the groups moved in the array.
TouchedId(C) == IF C.Op = "AppendData" THEN C.Arg.SharedData.PrimaryAssetId ELSE C.Arg

C6_ChecksumLocalityStep ==
    (Running /\ Call'.Op \in {"AppendData", "RemoveData"}) =>
        LET Id == TouchedId(Call')
            Old == RegistryState
            New == RegistryState'
        IN  /\ \A i \in 1..Len(Old.DataContainer) :
                  GetPrimaryAssetId(Old.DataContainer[i]) # Id =>
                     \E j \in 1..Len(New.DataContainer) :
                        /\ GetPrimaryAssetId(New.DataContainer[j]) = GetPrimaryAssetId(Old.DataContainer[i])
                        /\ New.DataContainer[j].Checksum = Old.DataContainer[i].Checksum
            /\ \A k \in 1..Len(Old.Archetypes) :
                  Old.Archetypes[k].PrimaryAssetType # Id[1] =>
                     \E m \in 1..Len(New.Archetypes) :
                        /\ New.Archetypes[m].PrimaryAssetType = Old.Archetypes[k].PrimaryAssetType
                        /\ New.Archetypes[m].Checksum = Old.Archetypes[k].Checksum

C6_ChecksumLocality == [][C6_ChecksumLocalityStep]_vars

\* An insert created group 1 in front of group 2, whose cached checksum survived.
C6_Witness ==
    /\ Running
    /\ Call.Op = "AppendData" /\ Call.Result = TRUE
    /\ Call.Arg.SharedData.PrimaryAssetId[1] = 1
    /\ Len(RegistryState.Archetypes) = 2
    /\ RegistryState.Archetypes[1].Offset = 1
    /\ RegistryState.Archetypes[1].Checksum = 0
    /\ RegistryState.Archetypes[2].Begin = 1
    /\ RegistryState.Archetypes[2].Checksum # 0
    /\ LiveRecords[2].Checksum # 0


\* The records of Data that have no record of the same id in Base, or whose
\* data differs from it, in order.
ExpectedDiff(Data, Base) ==
    LET Kept == {i \in 1..Len(Data) : \A j \in 1..Len(Base) : Base[j] # Data[i]}
        Nth(k) == CHOOSE i \in Kept : Cardinality({j \in Kept : j < i}) = k - 1
    IN  [k \in 1..Cardinality(Kept) |-> Data[Nth(k)]]

\* C10: self.DiffRecords(base) completes and leaves in self exactly the former
\* records that have no same-id record in base or whose data differs from it.
C10_DiffRecordsStep ==
    (Running /\ Call'.Op = "DiffRecords") =>
        /\ RegistryState'.Fatal = ""
        /\ RecordDataSeq(RegistryState') = ExpectedDiff(RecordDataSeq(RegistryState), Call'.Arg)

C10_DiffRecordsExact == [][C10_DiffRecordsStep]_vars


\* C7: a LoadState of a file whose body does not match the header checksum
\* returns false and leaves the state without records, whatever it held.
C7_MismatchEmptiesState ==
    (Call.Op = "LoadState" /\ ~BodyMatchesChecksum(Archive)) =>
        /\ Call.Result = FALSE
        /\ ~HasRecords(RegistryState)

UnknownBlobs(S) ==
    {k \in 1..Len(S.CustomDataContainer) : S.CustomDataContainer[k].ScriptStruct \notin KnownStructs}

\* C8: LoadState returns true only if magic, version, data-source class and
\* cooked flag are accepted, the body matches the header checksum and every
\* blob is of a known type; when a header check fails it returns false and the
\* state is what it was.
C8_LoadStateStep ==
    (Running /\ Call'.Op = "LoadState") =>
        LET HeaderOk == /\ Archive.Magic = Magic
                        /\ Archive.Version <= LatestVersion
                        /\ Archive.DataSourceClass = DataSourceClassName
                        /\ Archive.bIsCooked = Call'.Arg
        IN  /\ Call'.Result = TRUE =>
                  /\ HeaderOk
                  /\ BodyMatchesChecksum(Archive)
                  /\ UnknownBlobs(RegistryState') = {}
                  /\ ~(Archive.Body = EncodeState(Saved, Archive.bIsCooked) /\ UnknownBlobs(Saved) # {})
            /\ ~HeaderOk => (Call'.Result = FALSE /\ RegistryState' = RegistryState)

C8_LoadStateFailsClosed == [][C8_LoadStateStep]_vars

\* A file of a newer version was refused and the three records stayed.
C8_Witness ==
    /\ Call.Op = "LoadState" /\ Call.Result = FALSE
    /\ Archive.Version > LatestVersion
    /\ BodyMatchesChecksum(Archive)
    /\ Archive.bIsCooked = Call.Arg
    /\ Call.Before = 3 /\ RecordsNum = 3

ReplicationIndices(S) == [i \in 1..Len(S.DataContainer) |-> S.DataContainer[i].RepIndex]

\* C9: SaveState(S, c), then LoadState with the same c into a state without
\* records, returns true and gives the records of S in the same order, with
\* the same replication indices and the same GetChecksum().
C9_RoundTripStep ==
    (/\ Running
     /\ Call'.Op = "LoadState"
     /\ RegistryState.DataContainer = <<>> /\ RegistryState.CustomDataContainer = <<>>
     /\ Archive = SaveState(Saved, Call'.Arg)
     /\ UnknownBlobs(Saved) = {}) =>
        /\ Call'.Result = TRUE
        /\ RegistryState'.Fatal = ""
        /\ RecordDataSeq(RegistryState') = RecordDataSeq(Saved)
        /\ ReplicationIndices(RegistryState') = ReplicationIndices(Saved)
        /\ GetChecksum(RegistryState').Checksum = GetChecksum(Saved).Checksum

C9_SaveLoadRoundTrip == [][C9_RoundTripStep]_vars

\* Three records, one of them with its default payload behind its custom data
\* in the blob store, came back from the file into an empty state.
C9_Witness ==
    /\ Running
    /\ Call.Op = "LoadState" /\ Call.Result = TRUE /\ Call.Before = 0
    /\ Archive = SaveState(Saved, Call.Arg)
    /\ Len(Saved.DataContainer) = 3
    /\ \E i \in 1..Len(Saved.DataContainer) :
          /\ Saved.DataContainer[i].CustomDataIndex >= 0
          /\ Saved.DataContainer[i].DefaultPayloadIndex > Saved.DataContainer[i].CustomDataIndex
    /\ RecordDataSeq(RegistryState) = RecordDataSeq(Saved)


\* C4: every write of the game thread to the live state during AppendRecords,
\* RemoveRecords and ResetRecords is made with the critical section held, and
\* an item operation that reads under the lock on another thread sees the
\* record as it was before the batch or as it is after it.
C4_WritesUnderLock ==
    /\ ~Threads.UnlockedWrite
    /\ Threads.ReaderPc = "Read" =>
          Threads.ReaderSaw \in {ItemView(Threads.PreBatch, Threads.ReaderId),
                                 ItemView(Threads.PostBatch, Threads.ReaderId)}


(***************************************************************************)
(* AppendData.                                                             *)
(***************************************************************************)
\* The data of a record as its caller hands it in.
IncomingData(InRecord) ==
    [SharedData |-> InRecord.SharedData,
     AssetPath |-> InRecord.AssetPath,
     DefaultPayload |-> ViewValue(<<>>, InRecord.DefaultPayload),
     CustomData |-> ViewValue(<<>>, InRecord.CustomData)]

\* C11: AppendData(record) returns true exactly when the id was not stored;
\* afterwards one record has that id and its data is the incoming data; an
\* update keeps the record count, the order and every replication index; in
\* both paths the data of every other record is what it was.
C11_AppendDataStep ==
    (Running /\ Call'.Op = "AppendData") =>
        LET Id == GetPrimaryAssetId(Call'.Arg)
            Before == RecordDataSeq(RegistryState)
            After == RecordDataSeq(RegistryState')
            At == {i \in 1..Len(After) : After[i].SharedData.PrimaryAssetId = Id}
        IN  /\ RegistryState'.Fatal = ""
            /\ Call'.Result = (Id \notin StoredIds(RegistryState))
            /\ Cardinality(At) = 1
            /\ \A i \in At : After[i] = IncomingData(Call'.Arg)
            /\ IF Id \in StoredIds(RegistryState)
               THEN /\ After = [Before EXCEPT ![PositionOf(RegistryState, Id)] =
                                                 IncomingData(Call'.Arg)]
                    /\ ReplicationIndices(RegistryState') = ReplicationIndices(RegistryState)
               ELSE \A i \in At : WithoutPosition(After, i) = Before

C11_AppendDataExact == [][C11_AppendDataStep]_vars


(***************************************************************************)
(* The batch operations of the registry.                                   *)
(***************************************************************************)
\* C12: AppendRecords returns the increase of the record count and
\* RemoveRecords returns its decrease, for every input list.
C12_BatchCounts ==
    (Running /\ Threads.OwnerPc = "Return") =>
        /\ Threads.Op = "AppendRecords" =>
              Threads.Result = GetRecordsNum(RegistryState) - Len(Threads.PreBatch)
        /\ Threads.Op = "RemoveRecords" =>
              Threads.Result = Len(Threads.PreBatch) - GetRecordsNum(RegistryState)

(***************************************************************************)
(* Properties of the redirects.                                            *)
(***************************************************************************)
NameRedirects == Redirects.PrimaryAssetNameRedirects
LinkSet(List) == {List[i] : i \in 1..Len(List)}
OldValues(List) == {List[i][1] : i \in 1..Len(List)}
RECURSIVE Paths(_, _)
Paths(Links, n) ==
    IF n = 0 THEN Links
    ELSE LET Shorter == Paths(Links, n - 1)
         IN  Shorter \cup {p \in Names \X Names :
                              \E b \in Names : <<p[1], b>> \in Shorter /\ <<b, p[2]>> \in Links}
\* The pairs <<a, b>> such that b is reached from a over one or more links.
Reach(List) == Paths(LinkSet(List), Cardinality(Names))
IsAcyclic(List) == LET R == Reach(List) IN \A a \in Names : <<a, a>> \notin R
IsUnambiguous(List) == \A i, j \in 1..Len(List) : List[i][1] = List[j][1] => i = j
\* The values on the chains that start at a, a included.
PathFrom(List, a) == LET R == Reach(List) IN {a} \cup {v \in Names : <<a, v>> \in R}
\* The values a chain that starts at a can end at.
ChainEnds(List, a) == PathFrom(List, a) \ OldValues(List)
LastOfChain(List, a) == CHOOSE b \in ChainEnds(List, a) : TRUE
LeadsIntoCycle(List, a) == LET R == Reach(List) IN \E c \in PathFrom(List, a) : <<c, c>> \in R
Reordered(List) == {[i \in 1..Len(List) |-> List[f[i]]] : f \in Permutations(1..Len(List))}
MapAsSet(Map) == {Map[i] : i \in 1..Len(Map)}

\* What C17 states of a list: every order of the list resolves to the same
\* map, which sends every old value to an end of its chain and none of whose
\* targets is a key; a TryRedirect reached the end in one lookup and a second
\* TryRedirect changes nothing.
ResolvesToLastOfChain(List) ==
    /\ \A Order \in Reordered(List) :
          LET Resolved == LoadRedirectsFromConfig(Order)
          IN  /\ MapAsSet(Resolved) = MapAsSet(Redirects.NameRedirectionMap)
              /\ \A a \in OldValues(List) :
                    MapContains(Resolved, a) /\ MapFind(Resolved, a) \in ChainEnds(List, a)
              /\ \A i \in 1..Len(Resolved) : ~MapContains(Resolved, Resolved[i][2])
    /\ Call.Op = "TryRedirect" =>
          /\ Call.Result[2][2] \in ChainEnds(List, Call.Arg[2])
          /\ TryRedirect(Redirects, Call.Result[2]) = Call.Result[2]
          /\ ~TryRedirectResult(Redirects, Call.Result[2])

\* C17 as stated: for a raw redirect list without cycles the resolved map
\* sends every old value to the last value of its chain whatever the order of
\* the list, no target is a key, and TryRedirect is idempotent.
C17_AcyclicResolution ==
    IsAcyclic(NameRedirects) => ResolvesToLastOfChain(NameRedirects)

\* C17 amended: the same for a raw redirect list without cycles in which no
\* old value occurs twice.
C17_AcyclicUnambiguousResolution ==
    (IsAcyclic(NameRedirects) /\ IsUnambiguous(NameRedirects)) =>
        ResolvesToLastOfChain(NameRedirects)

C17_Witness ==
    /\ NameRedirects = <<<<2, 3>>, <<1, 2>>, <<3, 4>>>>
    /\ Call.Op = "TryRedirect" /\ Call.Arg = <<2, 1>> /\ Call.Result = <<TRUE, <<1, 4>>>>

\* C18: resolution terminates for every list and every order in which the
\* entries of the raw map are processed; an old value on a cycle or leading
\* into one is left without a resolved entry, so TryRedirect leaves it
\* unchanged, and every other old value resolves to the last value of its
\* chain.
C18_CyclesAreInert ==
    LET UnresolvedRedirects == GenerateRedirectionMap(NameRedirects)
    IN  /\ ~Redirects.bDiverged
        /\ \A Order \in Reordered(UnresolvedRedirects) : ~ResolveRedirectionMap(Order).Diverged
        /\ \A a \in OldValues(UnresolvedRedirects) :
              IF LeadsIntoCycle(UnresolvedRedirects, a)
              THEN \A Order \in Reordered(UnresolvedRedirects) :
                      ~MapContains(ResolveRedirectionMap(Order).Resolved, a)
              ELSE LET Last == LastOfChain(UnresolvedRedirects, a)
                   IN  \A Order \in Reordered(UnresolvedRedirects) :
                          MapFind(ResolveRedirectionMap(Order).Resolved, a) = Last
        /\ Call.Op = "TryRedirect" =>
              Call.Result[2][2] =
                 IF \/ Call.Arg[2] \notin OldValues(UnresolvedRedirects)
                    \/ LeadsIntoCycle(UnresolvedRedirects, Call.Arg[2])
                 THEN Call.Arg[2]
                 ELSE LastOfChain(UnresolvedRedirects, Call.Arg[2])

C18_Witness ==
    /\ NameRedirects = <<<<1, 2>>, <<2, 1>>, <<3, 4>>>>
    /\ Redirects.NameRedirectionMap = <<<<3, 4>>>>
    /\ Call.Op = "TryRedirect" /\ Call.Arg = <<2, 1>> /\ Call.Result = <<TRUE, <<1, 1>>>>

\* C19: AppendRedirects(list, old, new, invert = true) on an acyclic,
\* unambiguous list in which the chain from new ends at old returns true, adds
\* no link and swaps exactly the links on the path from new to old; the list
\* stays acyclic and unambiguous and every value on the path resolves to new.
C19_InvertStep ==
    LET List == NameRedirects
        After == Redirects'.PrimaryAssetNameRedirects
        OldValue == Call'.Arg[1]
        NewValue == Call'.Arg[2]
    IN  (/\ Call'.Op = "AppendRedirects" /\ Call'.Arg[3]
         /\ IsAcyclic(List) /\ IsUnambiguous(List)
         /\ OldValue # NewValue /\ NewValue \in OldValues(List)
         /\ LastOfChain(List, NewValue) = OldValue)
        => /\ Call'.Result = TRUE
           /\ Len(After) = Len(List)
           /\ \A i \in 1..Len(List) :
                 After[i] = IF List[i][1] \in PathFrom(List, NewValue)
                            THEN <<List[i][2], List[i][1]>> ELSE List[i]
           /\ IsAcyclic(After) /\ IsUnambiguous(After)
           /\ \A v \in PathFrom(List, NewValue) :
                 TryRedirect(Redirects', <<1, v>>) = <<1, NewValue>>

C19_InvertsChain == [][C19_InvertStep]_vars

C19_Witness ==
    /\ Call.Op = "AppendRedirects" /\ Call.Arg = <<3, 1, TRUE>> /\ Call.Result = TRUE
    /\ NameRedirects = <<<<2, 1>>, <<3, 2>>>>

\* C20: a call of AppendRedirects that returns false leaves the raw list as it
\* was; on an acyclic, unambiguous list it returns false exactly when old
\* equals new, old is an old value, or new is an old value and the call is not
\* an inversion of the chain from new to old; a call that returns true on an
\* acyclic, unambiguous list leaves it acyclic and unambiguous.
C20_AppendStep ==
    LET List == NameRedirects
        After == Redirects'.PrimaryAssetNameRedirects
        OldValue == Call'.Arg[1]
        NewValue == Call'.Arg[2]
        bInvertible == Call'.Arg[3] /\ LastOfChain(List, NewValue) = OldValue
    IN  Call'.Op = "AppendRedirects" =>
           /\ Call'.Result = FALSE => Redirects' = Redirects
           /\ (IsAcyclic(List) /\ IsUnambiguous(List)) =>
                 /\ Call'.Result = FALSE <=>
                       \/ OldValue = NewValue
                       \/ OldValue \in OldValues(List)
                       \/ NewValue \in OldValues(List) /\ ~bInvertible
                 /\ Call'.Result = TRUE => IsAcyclic(After) /\ IsUnambiguous(After)

C20_RejectionLeavesList == [][C20_AppendStep]_vars

C20_Witness ==
    /\ Call.Op = "AppendRedirects" /\ Call.Arg = <<2, 3, TRUE>> /\ Call.Result = FALSE
    /\ NameRedirects = <<<<1, 2>>, <<3, 4>>>>

\* The entries of a list that satisfy Test, in order.
EntriesWhere(List, Test(_)) == SelectSeq(List, Test)

\* C21: CleanupRedirects(list, target, recursive) removes every entry whose
\* chain resolves to target (without recursion at least every entry that
\* redirects directly to target), leaves in place every entry whose chain
\* does not reach target, and returns true exactly when an entry was removed.
C21_CleanupRemovesChains ==
    Call.Op = "CleanupRedirects" =>
        LET Before == Call.Arg[1]
            TargetValue == Call.Arg[2]
            bRecursively == Call.Arg[3]
            After == NameRedirects
            ResolvesTo(Redirect) ==
                IF bRecursively
                THEN TargetValue \in ChainEnds(Before, Redirect[2])
                ELSE Redirect[2] = TargetValue
            Misses(Redirect) == TargetValue \notin PathFrom(Before, Redirect[1])
        IN  /\ \A i \in 1..Len(Before) :
                  ResolvesTo(Before[i]) => \A j \in 1..Len(After) : After[j] # Before[i]
            /\ EntriesWhere(After, Misses) = EntriesWhere(Before, Misses)
            /\ Call.Result <=> Len(After) < Len(Before)

\* What C22 states of a call of TraversePermutations.
TraversesRedirectSources ==
    LET Id == Call.Arg[1]
        FalseAt == Call.Arg[2]
        Calls == Call.Result
        Sources == {Other \in TraverseIds \ {Id} : TryRedirect(Redirects, Other) = Id}
        Pass(Other) == IF Other[1] = Id[1] THEN 1 ELSE IF Other[2] = Id[2] THEN 2 ELSE 3
    IN  /\ FalseAt = 0 =>
              /\ {Calls[i] : i \in 1..Len(Calls)} = Sources
              /\ \A i, j \in 1..Len(Calls) : Calls[i] = Calls[j] => i = j
              /\ \A i, j \in 1..Len(Calls) : i < j => Pass(Calls[i]) <= Pass(Calls[j])
        /\ FalseAt # 0 =>
              /\ Len(Calls) <= FalseAt
              /\ \A i \in 1..Len(Calls) : Calls[i] \in Sources

\* C22 as stated: for every id, TraversePermutations with a predicate that
\* always returns true calls it exactly once for every other id TryRedirect
\* maps to the id and for no other id, name substitutions first, then type
\* substitutions, then both; after the predicate returned false no call is made.
C22_TraversePermutations ==
    Call.Op = "TraversePermutations" => TraversesRedirectSources

\* C22 amended: the same for an id that TryRedirect leaves unchanged.
C22_TraversePermutationsOfCurrentId ==
    (Call.Op = "TraversePermutations" /\ ~TryRedirectResult(Redirects, Call.Arg[1])) =>
        TraversesRedirectSources

C22_Witness ==
    /\ Call.Op = "TraversePermutations" /\ Call.Arg = <<<<1, 2>>, 0>>
    /\ Call.Result = <<<<1, 1>>, <<2, 2>>, <<2, 1>>>>
    /\ ~TryRedirectResult(Redirects, <<1, 2>>)

(***************************************************************************)
(* Properties of the defaults propagation.                                 *)
(***************************************************************************)
\* The data a record stores, read from the blobs its indices name.
StoredRecordData(S, Pos) ==
    [SharedData |-> S.DataContainer[Pos].SharedData,
     AssetPath |-> S.DataContainer[Pos].AssetPath,
     DefaultPayload |-> StoredValue(S, S.DataContainer[Pos].DefaultPayloadIndex),
     CustomData |-> StoredValue(S, S.DataContainer[Pos].CustomDataIndex)]

\* Every record of the list is stored under its id with identical data.
AllStoredIdentical(S, InRecords) ==
    \A i \in 1..Len(InRecords) :
        LET Pos == GetRecordPtr(S, GetPrimaryAssetId(InRecords[i]))
        IN  Pos # 0 /\ StoredRecordData(S, Pos) = IncomingData(InRecords[i])

\* C13: AppendRecords with only records identical to the stored ones, and
\* ResetRecords with exactly the current contents, leave the propagation
\* context empty after DiffRecords, do not invoke PropagateRegistryDefaults and
\* leave every object unvisited and unmodified.
C13_NoOpStep ==
    (/\ Running /\ RegistryState'.Fatal = ""
     /\ \/ Call'.Op = "AppendRecords" /\ AllStoredIdentical(RegistryState, Call'.Arg)
        \/ /\ Call'.Op = "ResetRecords"
           /\ Len(Call'.Arg) = GetRecordsNum(RegistryState)
           /\ AllStoredIdentical(RegistryState, Call'.Arg))
    => Call'.Result = "NoChanges" /\ Propagator' = Propagator

C13_NoOpNeverPropagates == [][C13_NoOpStep]_vars

\* The previous default of the record an item refers to, and the default of
\* the live record of the redirected id, read from the blobs.
OriginalDefaultOf(Item) ==
    LET Pos == GetRecordPtr(Propagator.Context, Item.PrimaryAssetId)
    IN  StoredValue(Propagator.Context, Propagator.Context.DataContainer[Pos].DefaultPayloadIndex)
LivePosOf(Item) == GetRecordPtr(RegistryState, TryRedirect(Redirects, Item.PrimaryAssetId))
LiveDefaultOf(Item) ==
    StoredValue(RegistryState, RegistryState.DataContainer[LivePosOf(Item)].DefaultPayloadIndex)
InContext(Item) ==
    Item.PrimaryAssetId # NoneId /\ ContainsRecord(Propagator.Context, Item.PrimaryAssetId)
VisitStep == Call'.Op = "PropagateObject" /\ Call'.Result = "Visited" /\ RegistryState'.Fatal = ""

\* C14: when a visited item refers to a record of the context whose default
\* payload keeps its type, which is the type of the item's payload, every
\* property whose default changed from v1 to v2 and whose stored value is v1
\* ends as v2, and every other property keeps its stored value.
C14_VisitStep ==
    LET Item == Propagator.Items[Call'.Arg]
        After == Propagator'.Items[Call'.Arg]
    IN  (/\ VisitStep /\ InContext(Item) /\ LivePosOf(Item) # 0
         /\ LiveDefaultOf(Item).ScriptStruct # NoStruct
         /\ OriginalDefaultOf(Item).ScriptStruct = LiveDefaultOf(Item).ScriptStruct
         /\ Item.Payload.ScriptStruct = LiveDefaultOf(Item).ScriptStruct)
        => /\ After.Payload.ScriptStruct = Item.Payload.ScriptStruct
           /\ \A Offset \in PropertyOffsets :
                 LET v1 == FieldAt(OriginalDefaultOf(Item).Value, Offset)
                     v2 == FieldAt(LiveDefaultOf(Item).Value, Offset)
                 IN  After.Payload.Fields[Offset] =
                        IF v1 # v2 /\ Item.Payload.Fields[Offset] = v1
                        THEN v2 ELSE Item.Payload.Fields[Offset]

C14_CustomizationPreserved == [][C14_VisitStep]_vars

\* C15: a visited item whose id is in the context and, redirected, is not in
\* the live registry ends with an invalid id and no payload; one whose id is
\* still there and whose payload type differs from the type of the new
\* default ends with a copy of the new default; an item whose id is invalid
\* or not in the context is not modified.
C15_VisitStep ==
    LET Item == Propagator.Items[Call'.Arg]
        After == Propagator'.Items[Call'.Arg]
    IN  VisitStep =>
           /\ (InContext(Item) /\ LivePosOf(Item) = 0) =>
                 After = [PrimaryAssetId |-> NoneId, Payload |-> EmptyPayload]
           /\ (/\ InContext(Item) /\ LivePosOf(Item) # 0
               /\ Item.Payload.ScriptStruct # LiveDefaultOf(Item).ScriptStruct) =>
                 After.Payload = InitializeAs(LiveDefaultOf(Item))
           /\ ~InContext(Item) => After = Item

C15_RemovedAndRetyped == [][C15_VisitStep]_vars

\* C16: a data source call made while a propagation is in progress, whether
\* it ends in a rejected PropagateRegistryDefaults or not, changes no item,
\* fires no delegate and leaves the flag, the archive and the context of the
\* propagation in progress as they are; the flag is true exactly between the
\* pre and the post delegate of one propagation, and false after a call that
\* gathered no objects and after the end of the propagation.
C16_PropagationStep ==
    /\ (Propagator.bIsPropagatingDefaults
            /\ Call'.Op \in {"AppendRecords", "RemoveRecords", "ResetRecords"}) =>
          /\ Propagator' = Propagator
          /\ Call'.Result \in {"Rejected", "NoChanges", "Fatal"}
    /\ (~Propagator.bIsPropagatingDefaults /\ Call'.Result \in {"NoObjects", "NoChanges"}) =>
          Propagator' = Propagator
    /\ Call'.Op = "PropagateEnd" =>
          /\ ~Propagator'.bIsPropagatingDefaults
          /\ Propagator'.CurrentPropagationArchive = 0
    /\ Propagator'.PreBroadcasts - Propagator'.PostBroadcasts =
          IF Propagator'.bIsPropagatingDefaults THEN 1 ELSE 0
    /\ Propagator'.bIsPropagatingDefaults <=> Propagator'.CurrentPropagationArchive # 0

C16_SinglePropagation == [][C16_PropagationStep]_vars

C16_Witness ==
    /\ Call.Op = "AppendRecords" /\ Call.Result = "Rejected"
    /\ Propagator.bIsPropagatingDefaults /\ Propagator.VisitedObjects # {}

(***************************************************************************)
(* Properties of the net serialization.                                    *)
(***************************************************************************)
\* The loaded replication index matches no record of the local registry.
MatchesNoRecord(RepIndex) == GetRecordFromReplication(RegistryState, RepIndex) = 0

\* C23 as stated: when NetSerializeItem loads a replication index other than
\* 0 that matches no record of the local registry, the success flag becomes
\* false and the id is the invalid id; the index 0 yields the invalid id and
\* the success flag stays true.
C23_UnknownIndexFails ==
    Call.Op = "NetSerializeItem" =>
        /\ (Call.Result.RepIndex # 0 /\ MatchesNoRecord(Call.Result.RepIndex)) =>
              ~Call.Result.bOutSuccess /\ Call.Result.PrimaryAssetId = NoneId
        /\ Call.Result.RepIndex = 0 =>
              Call.Result.bOutSuccess /\ Call.Result.PrimaryAssetId = NoneId

\* C23 amended: the index 0 yields the invalid id, and the success flag stays
\* true unless the build has network checksums and the checksum read with
\* the index is not 0.
C23_UnknownIndexFailsZeroChecked ==
    Call.Op = "NetSerializeItem" =>
        /\ (Call.Result.RepIndex # 0 /\ MatchesNoRecord(Call.Result.RepIndex)) =>
              ~Call.Result.bOutSuccess /\ Call.Result.PrimaryAssetId = NoneId
        /\ Call.Result.RepIndex = 0 =>
              /\ Call.Result.PrimaryAssetId = NoneId
              /\ Call.Result.bOutSuccess <=>
                    ~(Net.bWithNetworkChecksum /\ Call.Result.Checksum # 0)

C23_Witness ==
    /\ Call.Op = "NetSerializeItem" /\ Call.Result.RepIndex = 3
    /\ GetRecordsNum(RegistryState) = 2 /\ RegistryState.RepIndexEncodingBitsNum = 2
    /\ ~Call.Result.bOutSuccess /\ Call.Result.PrimaryAssetId = NoneId

\* The data of the records of a state in array order, read from the blobs.
StoredRecords(S) == [Pos \in 1..Len(S.DataContainer) |-> StoredRecordData(S, Pos)]

\* C28: when the local and the remote registry hold identical records, an id
\* written by NetSerializeItem on the remote end is read on the local end as
\* the same id when it is stored and as the invalid id when it is not, with
\* success reported in both cases; RepIndexEncodingBitsNum is
\* ceil(log2(N + 1)) for the N records of the state, which is enough for
\* every index 0..N, after every insert, removal, reset and load.
C28_NetRoundTrip ==
    /\ RegistryState.RepIndexEncodingBitsNum = CeilLogTwo(GetRecordsNum(RegistryState) + 1)
    /\ 2 ^ RegistryState.RepIndexEncodingBitsNum > GetRecordsNum(RegistryState)
    /\ (Call.Op = "NetSerializeItem" /\ StoredRecords(RegistryState) = StoredRecords(Net.Remote)) =>
          /\ Call.Result.bOutSuccess
          /\ Call.Result.PrimaryAssetId =
                IF ContainsRecord(Net.Remote, Call.Arg) THEN Call.Arg ELSE NoneId

(***************************************************************************)
(* Invariants of the registry state.                                       *)
(***************************************************************************)
\* The positions of the records of a type, in array order.
RECURSIVE PositionsFrom(_, _, _)
PositionsFrom(S, Type, Pos) ==
    IF Pos > Len(S.DataContainer) THEN <<>>
    ELSE (IF GetPrimaryAssetType(S.DataContainer[Pos]) = Type THEN <<Pos>> ELSE <<>>)
         \o PositionsFrom(S, Type, Pos + 1)

\* C25: the archetype groups partition the record array into contiguous
\* ranges in array order, one group per type that occurs and none for any
\* other type; ContainsArchetype(T) holds exactly when a record has type T,
\* GetRecords(T) returns exactly the records of type T, and GetRecordPtr(id)
\* returns the record with that id or nothing.
C25_ArchetypePartition ==
    Running =>
        LET Groups == RegistryState.Archetypes
            N == RecordsNum
        IN  /\ \A k \in 1..Len(Groups) :
                  /\ Groups[k].Offset >= 1
                  /\ Groups[k].Begin = IF k = 1 THEN 0
                                       ELSE Groups[k - 1].Begin + Groups[k - 1].Offset
                  /\ \A j \in 1..Len(Groups) :
                        Groups[j].PrimaryAssetType = Groups[k].PrimaryAssetType => j = k
            /\ N = IF Groups = <<>> THEN 0
                   ELSE Groups[Len(Groups)].Begin + Groups[Len(Groups)].Offset
            /\ \A Type \in ArchetypeTypes \cup {3} :
                  /\ ContainsArchetype(RegistryState, Type) <=>
                        \E i \in 1..N : GetPrimaryAssetType(LiveRecords[i]) = Type
                  /\ GetRecords(RegistryState, Type) = PositionsFrom(RegistryState, Type, 1)
            /\ \A Id \in RecordIds \cup {<<2, 2>>} :
                  LET Pos == GetRecordPtr(RegistryState, Id)
                  IN  IF \E i \in 1..N : GetPrimaryAssetId(LiveRecords[i]) = Id
                      THEN Pos \in 1..N /\ GetPrimaryAssetId(LiveRecords[Pos]) = Id
                      ELSE Pos = 0

C25_Witness ==
    /\ Running /\ Call.Op = "RemoveData" /\ Call.Result = TRUE
    /\ RecordsNum = 2
    /\ Len(RegistryState.Archetypes) = 2
    /\ GetRecords(RegistryState, 2) = <<2>>

\* The view and index slots of the stored records.
CustomDataSlots == (1..RecordsNum) \X {"DefaultPayload", "CustomData"}

\* C26: after every completed Reset, AppendData, RemoveData and successful
\* LoadState each stored index is none or a valid index of the custom data
\* container, no index is used by two slots, every blob is referenced by a
\* slot, and each cached view denotes exactly the blob at its index and is
\* empty exactly when the index is none.
C26_CustomDataConsistent ==
    Running =>
        LET Container == RegistryState.CustomDataContainer
            IndexOf(slot) == LiveRecords[slot[1]][IndexField(slot[2])]
            ViewOf(slot) == LiveRecords[slot[1]][slot[2]]
        IN  /\ \A slot \in CustomDataSlots :
                  /\ IndexOf(slot) = INDEX_NONE \/ IsValidIndex(Container, IndexOf(slot))
                  /\ ViewOf(slot) = RefreshViewData(Container, IndexOf(slot))
                  /\ \A other \in CustomDataSlots :
                        IndexOf(slot) # INDEX_NONE /\ IndexOf(slot) = IndexOf(other)
                            => slot = other
            /\ \A Index \in 0..(Len(Container) - 1) :
                  \E slot \in CustomDataSlots : IndexOf(slot) = Index

\* C27: whenever the cached top-level checksum is non-zero, the cached
\* checksum of every archetype group and of every record is non-zero and
\* equals its from-scratch value; hence, between two states whose top-level
\* checksum is cached, the fast comparison of DiffRecords gives the result
\* of the full comparison for every pair of records with the same id.
C27_CachedChecksumChain ==
    (Running /\ RegistryState.Checksum # 0) =>
        /\ Len(RegistryState.Archetypes) = Len(TypeRuns(RegistryState))
        /\ \A k \in 1..Len(RegistryState.Archetypes) :
              /\ RegistryState.Archetypes[k].Checksum # 0
              /\ RegistryState.Archetypes[k].Checksum
                    = FreshGroupChecksum(RegistryState, TypeRuns(RegistryState)[k])
        /\ \A i \in 1..RecordsNum :
              /\ LiveRecords[i].Checksum # 0
              /\ LiveRecords[i].Checksum = FreshRecordChecksum(RegistryState, i)
        /\ \A l \in DiffBaseInputs :
              LET InBaseState == GetChecksum(Reset(EmptyState, l))
              IN  InBaseState.Checksum # 0 =>
                    \A i \in 1..RecordsNum :
                        LET Other == GetRecordPtr(InBaseState, GetPrimaryAssetId(LiveRecords[i]))
                        IN  Other # 0 =>
                              (HasIdenticalDataFast(InBaseState.DataContainer[Other], LiveRecords[i])
                                 <=> HasIdenticalData(InBaseState.CustomDataContainer,
                                                      InBaseState.DataContainer[Other],
                                                      RegistryState.CustomDataContainer,
                                                      LiveRecords[i]))

(***************************************************************************)
(* Properties of the data source and of the cooking mode.                  *)
(***************************************************************************)
RegistryOperations == {"AppendRecords", "RemoveRecords", "ResetRecords"}

\* The registry state but for the mark of the abort.
WithoutFatal(S) == [S EXCEPT !.Fatal = ""]

\* C24: AppendRecords, RemoveRecords and ResetRecords abort before they read
\* or change the registry state when called off the game thread, while the
\* registry is cooking, or by a persistent data source after initialization
\* during play in editor; the registry state never changes while the
\* registry is cooking; no refresh is pending or in progress when
\* OnCookStarted enters the cooking mode, and the refresh of OnCookFinished
\* runs with the cooking mode left and is not aborted.
C24_ContractStep ==
    Running =>
        /\ (/\ Call'.Op \in RegistryOperations
            /\ \/ Call'.Arg # <<"GameThread">>
               \/ Source.bIsCooking
               \/ Source.bIsPersistent /\ Source.bIsInitialized /\ Source.bPlayInEditorWorld)
              => /\ RegistryState'.Fatal # ""
                 /\ Call'.Result = "Fatal"
                 /\ WithoutFatal(RegistryState') = RegistryState
        /\ (Source.bIsCooking /\ Source'.bIsCooking)
              => WithoutFatal(RegistryState') = RegistryState
        /\ (~Source.bIsCooking /\ Source'.bIsCooking)
              => /\ ~IsPendingRefresh(Source')
                 /\ ~IsRefreshing(Source')
                 /\ RegistryState'.Fatal = ""
        /\ Source'.Pc = "Refreshing" => ~Source'.bIsCooking
        /\ (Call'.Op = "OnCookFinished" /\ Source.bIsCooking)
              => /\ ~Source'.bIsCooking
                 /\ RegistryState'.Fatal = ""

C24_ContractViolationAborts == [][C24_ContractStep]_vars

C24_Witness ==
    /\ Call.Op = "ResetRecords" /\ Call.Arg = <<"GameThread">> /\ Call.Result = "Fatal"
    /\ Source.bIsCooking /\ ~Source.bPlayInEditorWorld
    /\ HasRecords(RegistryState)
    /\ \E h \in 1..Len(Source.Handles) : Source.Handles[h].Applied = 1

\* C29: ForceRefresh starts no preload while a refresh is pending; BulkRefresh
\* does nothing while a refresh is in progress or when none is pending;
\* IsRefreshing() holds only while BulkRefresh runs; after
\* CancelPendingRefresh no refresh is pending and the cancelled preload is
\* never applied; every preload is applied to the registry at most once.
C29_RefreshStep ==
    Running =>
        /\ (IsPendingRefresh(Source) /\ Call'.Op \in {"ForceRefresh", "PostInitialize", "OnCookFinished"})
              => Len(Source'.Handles) = Len(Source.Handles)
        /\ ((IsRefreshing(Source) \/ ~IsPendingRefresh(Source)) /\ Call'.Op = "BulkRefresh")
              => /\ RegistryState' = RegistryState
                 /\ \A h \in 1..Len(Source.Handles) :
                       Source'.Handles[h].Applied = Source.Handles[h].Applied
                 /\ Source'.bIsPendingRefresh = Source.bIsPendingRefresh
        /\ (IsRefreshing(Source) /\ Call'.Op \in {"ForceRefresh", "CancelPendingRefresh"})
              => /\ RegistryState' = RegistryState
                 /\ \A h \in 1..Len(Source'.Handles) : Source'.Handles[h].Applied <= 1
                 /\ \A h \in 1..Len(Source.Handles) :
                       Source'.Handles[h].Applied = Source.Handles[h].Applied
        /\ IsRefreshing(Source') <=> Source'.Pc = "Refreshing"
        /\ Call'.Op = "CancelPendingRefresh"
              => ~IsPendingRefresh(Source') /\ ~Source'.bIsPendingRefresh
        /\ \A h \in 1..Len(Source.Handles) :
              /\ Source.Handles[h].bCanceled
                    => /\ Source'.Handles[h].bCanceled
                       /\ Source'.Handles[h].Applied = Source.Handles[h].Applied
              /\ Source'.Handles[h].Applied <= 1
              /\ Source'.Handles[h].Applied > Source.Handles[h].Applied
                    => RecordDataSeq(RegistryState')
                          = RecordDataSeq(Reset(EmptyState, SourceAssets[Source.Handles[h].Assets]))

C29_SingleRefresh == [][C29_RefreshStep]_vars

C29_Witness ==
    /\ Running /\ Call.Op = "BulkRefresh" /\ Source.Pc = "Idle"
    /\ Len(Source.Handles) = 2
    /\ Source.Handles[1].bCanceled /\ Source.Handles[1].Applied = 0
    /\ Source.Handles[2].Applied = 1 /\ ~Source.Handles[2].bDelegate
    /\ ~Source.bIsPendingRefresh
    /\ HasRecords(RegistryState)

(***************************************************************************)
(* Holders when a batch operation of the data source returns.              *)
(***************************************************************************)
\* Whether a holder is in line with a registry state: it holds the invalid
\* id, or its id is in the registry and its payload has the type of the
\* default payload of that record.
HolderInLine(S, Item) ==
    \/ Item.PrimaryAssetId = NoneId
    \/ /\ ContainsRecord(S, Item.PrimaryAssetId)
       /\ Item.Payload.ScriptStruct =
             StoredValue(S, S.DataContainer[GetRecordPtr(S, Item.PrimaryAssetId)]
                               .DefaultPayloadIndex).ScriptStruct

\* The ids of a batch of AppendRecords whose record a call changed or removed.
ChangedIds(Before, After, InRecords) ==
    {Id \in {GetPrimaryAssetId(InRecords[i]) : i \in 1..Len(InRecords)} :
        \/ ContainsRecord(Before, Id) # ContainsRecord(After, Id)
        \/ /\ ContainsRecord(Before, Id)
           /\ RecordData(Before, GetRecordPtr(Before, Id)) # RecordData(After, GetRecordPtr(After, Id))}

\* C30 as stated: when AppendRecords, RemoveRecords or ResetRecords returns,
\* every holder the gather step reaches is in line with the change of the
\* call: at the end of the propagation the call started no gathered holder
\* refers to a record of the context that is gone from the live registry or
\* has a payload of another type than the live default of such a record, and
\* the same holds when a call made during a propagation in progress returns,
\* for the records that call changed.
C30_ReturnStep ==
    /\ Call'.Op = "PropagateEnd" =>
          \A Object \in Propagator.VisitedObjects :
              InContext(Propagator'.Items[Object])
                 => HolderInLine(RegistryState', Propagator'.Items[Object])
    /\ (/\ Call'.Op = "AppendRecords" /\ Propagator.bIsPropagatingDefaults
        /\ RegistryState'.Fatal = "") =>
          \A Object \in DOMAIN Propagator'.Items :
              Propagator'.Items[Object].PrimaryAssetId
                    \in ChangedIds(RegistryState, RegistryState', Call'.Arg)
                 => HolderInLine(RegistryState', Propagator'.Items[Object])

C30_HoldersInLineOnReturn == [][C30_ReturnStep]_vars

\* C30, amended: the visit of a gathered holder whose id is in the context
\* leaves it in line with the live registry, every gathered holder was
\* visited when the propagation ends, and the end changes neither a holder
\* nor the registry; a call made during a propagation in progress changes the
\* registry and brings no holder in line with its change.
C30_PropagationStep ==
    /\ (VisitStep /\ InContext(Propagator.Items[Call'.Arg])) =>
          HolderInLine(RegistryState', Propagator'.Items[Call'.Arg])
    /\ Call'.Op = "PropagateObject" =>
          \A Object \in DOMAIN Propagator.Items \ {Call'.Arg} :
              Propagator'.Items[Object] = Propagator.Items[Object]
    /\ Call'.Op = "PropagateEnd" =>
          /\ Propagator.Objects = <<>>
          /\ Propagator'.Items = Propagator.Items
          /\ RegistryState' = RegistryState
    /\ (Call'.Op \in RegistryOperations /\ Propagator.bIsPropagatingDefaults) =>
          Propagator'.Items = Propagator.Items

C30_HoldersInLineAfterVisit == [][C30_PropagationStep]_vars

C30_Witness ==
    /\ Call.Op = "PropagateEnd" /\ Propagator.PostBroadcasts = 2
    /\ RegistryState.Fatal = ""
    /\ Propagator.Items[1].PrimaryAssetId = NoneId
    /\ Propagator.Items[2].Payload.ScriptStruct = StructB

====
